---- MODULE Spec2Model ----
(***************************************************************************)
(* A model of the distributary dataflow engine: the state store            *)
(* (backlog::WriteHandle), the Latest and Joiner operators, and the        *)
(* migration planner with its replay protocol.                             *)
(*                                                                         *)
(* Column indices are 0-based as in the Rust source; a row is a TLA+       *)
(* sequence, so column c of row r is r[c + 1]. Every query::DataType value *)
(* is written as a string.                                                 *)
(***************************************************************************)
EXTENDS Naturals, Integers, Sequences, FiniteSets, Bags, TLC

VARIABLES
    ops,      \* number of updates processed so far (bounds the run)
    bdata,    \* the base node feeding Latest and the join: its state (a store)
    ldata,    \* Latest: the node's own materialized state (a store)
    lin,      \* Latest: the batch last given to on_input
    lout,     \* Latest: the records on_input returned for lin
    lprev,    \* Latest: the node's state when on_input(lin) ran
    lpanic,   \* Latest: whether on_input(lin) failed instead of returning
    lnode,    \* join: the node index of the source given to Builder::from
    joiner,   \* join: the Joiner built from the Builder
    lstate,   \* join: the rows, with timestamps, the `from` source holds
    rstate,   \* join: the rows, with timestamps, the other source holds
    jdata,    \* join: the store accumulating what forward emits
    jin,      \* join: the update last given to forward, [from, rs]
    jout,     \* join: the records forward returned for jin
    jq,       \* join: the query last given to query
    jres,     \* join: the rows query returned for jq, once it has run
    hist,     \* the two updates last processed, with the stores each one found
    graph,    \* migration: the graph, its new nodes and the planned materialization
    plan,     \* migration: the position of initialize/reconstruct and its locals
    chan,     \* migration: the acknowledgement channels of the planner
    dom,      \* the domains: inboxes, node states, replay paths, egress tags
    wr,       \* the writes: how many were issued, the rows written to each base,
              \* and the state the new node has if it is there from the start
    store,    \* buffered store: the map and the timestamp reader and writer share
    wh,       \* buffered store: the writer's position in add/update_ts/swap
    rd,       \* buffered store: the reader's position in find_and and its results
    un,       \* union: its emit lists, sources, gather buffer, last call and result
    pk,       \* pick and index: the domain's graph and the results
    votes     \* soup: the rows <<user, id>> of the vote base

latestVars == <<bdata, ldata, lin, lout, lprev, lpanic>>
joinVars == <<lnode, joiner, lstate, rstate, jdata, jin, jout, jq, jres>>

flowVars == <<ops, latestVars, joinVars, hist>>
migVars == <<graph, plan, chan, dom, wr>>

storeVars == <<store, wh, rd>>
unionVars == <<un>>
pickVars == <<pk>>
soupVars == <<votes>>
restVars == <<storeVars, unionVars, pickVars, soupVars>>

vars == <<flowVars, migVars, restVars>>

(***************************************************************************)
(* Values, rows and records                                                *)
(***************************************************************************)

\* query::DataType::None
None == "None"

Keys == {"k1", "k2"}
Vals == {"a", "b"}

\* rows of two columns, a key and a value: two rows of one key, one of another
Rows == {<<"k1", "a">>, <<"k1", "b">>, <<"k2", "a">>}

\* ops::Record::Positive(r) / ops::Record::Negative(r)
Positive(r) == [pos |-> TRUE, r |-> r]
Negative(r) == [pos |-> FALSE, r |-> r]

Records == {Positive(r) : r \in Rows} \cup {Negative(r) : r \in Rows}

Max(a, b) == IF a >= b THEN a ELSE b

\* the sequences over S of length 1..n
SeqsUpTo(S, n) == UNION {[1..k -> S] : k \in 1..n}

\* the multiset of the elements of a sequence
SeqToBag(s) ==
    LET vals == {s[i] : i \in DOMAIN s}
    IN  [v \in vals |-> Cardinality({i \in DOMAIN s : s[i] = v})]

RECURSIVE Flatten(_)
Flatten(ss) == IF ss = <<>> THEN <<>> ELSE Head(ss) \o Flatten(Tail(ss))

(***************************************************************************)
(* The state store: backlog::WriteHandle                                   *)
(*                                                                         *)
(* The store is a map from the value of the key column to the vector of    *)
(* rows with that value; a key without rows has no entry.                  *)
(***************************************************************************)

EmptyStore == <<>>

State_rows(d, k) == IF k \in DOMAIN d THEN d[k] ELSE <<>>

MapPut(d, k, v) == [x \in DOMAIN d \cup {k} |-> IF x = k THEN v ELSE d[x]]
MapRemove(d, k) == [x \in DOMAIN d \ {k} |-> d[x]]

\* every row of the store, key after key
RECURSIVE StoreRows(_)
StoreRows(d) ==
    IF DOMAIN d = {} THEN <<>>
    ELSE LET k == CHOOSE k \in DOMAIN d : TRUE
         IN  d[k] \o StoreRows(MapRemove(d, k))

\* every row of the store, as a multiset
StoreBag(d) == SeqToBag(StoreRows(d))

\* e.iter().position(|er| er == &r): the first index holding r, 0 if none
Position(e, r) ==
    IF \E i \in DOMAIN e : e[i] = r
    THEN CHOOSE i \in DOMAIN e : e[i] = r /\ \A j \in 1..(i - 1) : e[j] # r
    ELSE 0

\* Vec::swap_remove(i): the last element takes the place of element i
SwapRemove(e, i) ==
    LET n == Len(e)
    IN  [j \in 1..(n - 1) |-> IF j = i THEN e[n] ELSE e[j]]

\* one iteration of the loop of WriteHandle::add
WriteHandle_add1_RemoveAll(d, rec, key) ==
    LET r == rec.r
        k == r[key + 1]
    IN  IF rec.pos
        THEN IF k \in DOMAIN d
             THEN MapPut(d, k, Append(d[k], r))
             ELSE MapPut(d, k, <<r>>)
        ELSE IF k \in DOMAIN d /\ Position(d[k], r) # 0
             THEN LET e == SelectSeq(d[k], LAMBDA er : er # r)
                  IN  IF e = <<>> THEN MapRemove(d, k) ELSE MapPut(d, k, e)
             ELSE d
WriteHandle_add1(d, rec, key) ==
    LET r == rec.r
        k == r[key + 1]
    IN  IF rec.pos
        THEN IF k \in DOMAIN d
             THEN MapPut(d, k, Append(d[k], r))
             ELSE MapPut(d, k, <<r>>)
        ELSE IF k \in DOMAIN d /\ Position(d[k], r) # 0
             THEN LET e == SwapRemove(d[k], Position(d[k], r))
                  IN  IF e = <<>> THEN MapRemove(d, k) ELSE MapPut(d, k, e)
             ELSE d

RECURSIVE WriteHandle_add(_, _, _)
WriteHandle_add(d, rs, key) ==
    IF rs = <<>> THEN d
    ELSE WriteHandle_add(WriteHandle_add1(d, Head(rs), key), Tail(rs), key)

\* whether every negative of the batch retracts a row the store holds when its
\* turn comes (a retraction must match an earlier insertion)
RECURSIVE Retractable(_, _, _)
Retractable(d, rs, key) ==
    IF rs = <<>> THEN TRUE
    ELSE /\ Head(rs).pos \/ Position(State_rows(d, Head(rs).r[key + 1]), Head(rs).r) # 0
         /\ Retractable(WriteHandle_add1(d, Head(rs), key), Tail(rs), key)

\* State::lookup(&[key], &KeyType::Single(k)): the rows stored under k
State_lookup(d, k) == State_rows(d, k)

(***************************************************************************)
(* The buffered store: backlog::BufferedStore and its WriteHandle          *)
(*                                                                         *)
(* Reader and writer hold the same CHashMap and the same AtomicIsize: each *)
(* access of the map and each load or store of the timestamp is one step,  *)
(* and the steps of the two threads interleave.                            *)
(***************************************************************************)

\* BufferedStoreBuilder::commit: an empty map and the timestamp -1; nothing in
\* the module records a failure, so `panicked` is never set
BufferedStoreBuilder_commit == [data |-> EmptyStore, ts |-> -1, panicked |-> FALSE]

\* WriteHandle::swap: the empty body
WriteHandle_swap(s) == s

\* WriteHandle::update_ts: an unconditional store
WriteHandle_update_ts(s, ts) == [s EXCEPT !.ts = ts]

\* `now_empty`: the negative took the last row of its key, and the key is
\* removed in a second access of the map
NowEmpty(d, rec, key) == ~rec.pos /\ State_rows(d, rec.r[key + 1]) = <<rec.r>>

\* the map after the get_mut/insert of one iteration of WriteHandle::add
WriteHandle_add1_access(d, rec, key) ==
    IF NowEmpty(d, rec, key) THEN MapPut(d, rec.r[key + 1], <<>>)
    ELSE WriteHandle_add1(d, rec, key)

\* BufferedStore::find_and, self.data.get(key).map(|rs| then(&rs[..])): the rows
\* copied under the read guard, or no result for a key the map does not hold
BufferedStore_get(s, k) ==
    IF k \in DOMAIN s.data THEN [ok |-> TRUE, rows |-> s.data[k]]
    ELSE [ok |-> FALSE, rows |-> <<>>]

\* BufferedStore::find_and, self.ts.load(SeqCst): read after the rows
BufferedStore_load(s) == s.ts

(***************************************************************************)
(* Latest: ops::latest::Latest                                             *)
(***************************************************************************)

\* Latest::new(src, vec![0]): the single group-by column
LatestKey == 0

\* rs.into_iter().partition(|r| r.is_positive()).0
Positives(rs) == SelectSeq(rs, LAMBDA rec : rec.pos)

\* the body of the `for r in pos` loop: the records pushed to `out` for r
Latest_emit_NoRevoke(state, rec) == <<rec>>
Latest_emit(state, rec) ==
    LET rs == State_lookup(state, rec.r[LatestKey + 1])
    IN  IF rs # <<>> THEN <<Negative(rs[1]), rec>> ELSE <<rec>>

\* the check of standalone negatives that on_input leaves as a TODO: no batch
\* makes on_input fail
Latest_rejects(rs) == FALSE

\* Latest::on_input: the negatives of the batch are dropped by the partition and
\* nothing checks them afterwards; every lookup reads the state the batch found
Latest_on_input(rs, state) ==
    LET pos == Positives(rs)
    IN  Flatten([i \in 1..Len(pos) |-> Latest_emit(state, pos[i])])


(***************************************************************************)
(* Joiner: ops::join                                                       *)
(***************************************************************************)

\* the rows of the join's other source
RVals == {"x", "y"}
RRows == {<<"k1", "x">>, <<"k1", "y">>, <<"k2", "x">>}

\* a record with its timestamp: ops::Record::Positive(r, ts) / Negative(r, ts)
Stamped(rec, ts) == [pos |-> rec.pos, r |-> rec.r, ts |-> ts]

\* the other node index of a two-node graph
OtherNode(n) == 1 - n

\* Builder::new(emit).from(l, lgroups) followed by .join(r, rgroups) or, when
\* outer, by .left_join(r, rgroups)
Builder_new(emit, l, lgroups, r, rgroups, outer) ==
    [emit |-> emit,
     join |-> [n \in {l, r} |->
                  IF n = l THEN [outer |-> FALSE, groups |-> lgroups]
                  ELSE [outer |-> outer, groups |-> rgroups]]]

\* g2c: which column of the source carries each non-zero group (collecting
\* into a HashMap keeps the last column of a group)
G2C(srcg) ==
    [g \in {srcg[c] : c \in DOMAIN srcg} \ {0} |->
        (CHOOSE c \in DOMAIN srcg :
            srcg[c] = g /\ \A c2 \in DOMAIN srcg : c2 > c => srcg[c2] # g) - 1]

\* the (srci, pi) pairs of the columns of p that share a group with src
JoinFields(srcg, pg) ==
    LET g2c == G2C(srcg)
        cols == SelectSeq([pi \in DOMAIN pg |-> pi], LAMBDA pi : pg[pi] \in DOMAIN g2c)
    IN  [i \in DOMAIN cols |-> <<g2c[pg[cols[i]]], cols[i] - 1>>]

\* From<Builder> for Joiner: for every source, the sources to join against
Joiner_from(b) ==
    [emit |-> b.emit,
     join |-> [src \in DOMAIN b.join |->
        [against |->
            [p \in {p \in DOMAIN b.join \ {src} :
                       JoinFields(b.join[src].groups, b.join[p].groups) # <<>>} |->
                [fields |-> JoinFields(b.join[src].groups, b.join[p].groups),
                 outer |-> b.join[p].outer]]]]]

\* the node handle of a source: the state of that node
NodeState(n) == IF n = lnode THEN lstate ELSE rstate

\* ops::Node::find(Some(&q), ts): the stored rows that satisfy every condition
\* of the query, each with its timestamp
Node_find(state, having) ==
    SelectSeq(state, LAMBDA e :
        \A i \in DOMAIN having : e.r[having[i].column + 1] = having[i].value)

\* ops::Node::process on a base node: the node's state absorbs the update
Node_absorb1(state, rec) ==
    IF rec.pos THEN Append(state, [r |-> rec.r, ts |-> rec.ts])
    ELSE LET rows == [i \in DOMAIN state |-> state[i].r]
         IN  IF Position(rows, rec.r) # 0
             THEN SwapRemove(state, Position(rows, rec.r))
             ELSE state

RECURSIVE Node_absorb(_, _)
Node_absorb(state, rs) ==
    IF rs = <<>> THEN state
    ELSE Node_absorb(Node_absorb1(state, Head(rs)), Tail(rs))

\* the rows of a node's state, without their timestamps
RowsOf(state) == [i \in DOMAIN state |-> state[i].r]

\* the records of an update as the base emits them: a positive carries the
\* timestamp of the update, a negative that of the row it retracts (so that the
\* negatives of a join have the timestamp of the positives they revoke)
RECURSIVE Stamp(_, _, _)
Stamp(state, rs, now) ==
    IF rs = <<>> THEN <<>>
    ELSE LET h == Head(rs)
             at == Position(RowsOf(state), h.r)
             rec == Stamped(h, IF h.pos \/ at = 0 THEN now ELSE state[at].ts)
         IN  <<rec>> \o Stamp(Node_absorb1(state, rec), Tail(rs), now)

\* the row woven from a record of `node` and a row of the other source
Weave(emit, other, left, right) ==
    [i \in DOMAIN emit |->
        IF emit[i][1] = other THEN right[emit[i][2] + 1] ELSE left[emit[i][2] + 1]]

\* the zero row of a left join: None for every column of the other source
WeaveNone(emit, other, left) ==
    [i \in DOMAIN emit |->
        IF emit[i][1] = other THEN None ELSE left[emit[i][2] + 1]]

\* Joiner::join(left, ts) with left = (node, row, timestamp)
Joiner_join_LeftTs(left) ==
    LET other == OtherNode(left.node)
        target == joiner.join[left.node].against[other]
        params == [i \in DOMAIN target.fields |->
                      [column |-> target.fields[i][2],
                       value |-> left.r[target.fields[i][1] + 1]]]
        rx == Node_find(NodeState(other), params)
    IN  IF rx = <<>> /\ target.outer
        THEN <<[r |-> WeaveNone(joiner.emit, other, left.r), ts |-> left.ts]>>
        ELSE [i \in DOMAIN rx |->
                 [r |-> Weave(joiner.emit, other, left.r, rx[i].r), ts |-> left.ts]]
Joiner_join_NoOuter(left) ==
    LET other == OtherNode(left.node)
        target == joiner.join[left.node].against[other]
        params == [i \in DOMAIN target.fields |->
                      [column |-> target.fields[i][2],
                       value |-> left.r[target.fields[i][1] + 1]]]
        rx == Node_find(NodeState(other), params)
    IN  [i \in DOMAIN rx |->
            [r |-> Weave(joiner.emit, other, left.r, rx[i].r),
             ts |-> Max(left.ts, rx[i].ts)]]
Joiner_join(left) ==
    LET other == OtherNode(left.node)
        target == joiner.join[left.node].against[other]
        params == [i \in DOMAIN target.fields |->
                      [column |-> target.fields[i][2],
                       value |-> left.r[target.fields[i][1] + 1]]]
        rx == Node_find(NodeState(other), params)
    IN  IF rx = <<>> /\ target.outer
        THEN <<[r |-> WeaveNone(joiner.emit, other, left.r), ts |-> left.ts]>>
        ELSE [i \in DOMAIN rx |->
                 [r |-> Weave(joiner.emit, other, left.r, rx[i].r),
                  ts |-> Max(left.ts, rx[i].ts)]]

\* Joiner::forward(u, from, ts, _): every record of the update is joined
\* against the other source and gives its sign to the rows it produces
Joiner_forward_Positive(rs, from) ==
    Flatten([i \in DOMAIN rs |->
        LET res == Joiner_join([node |-> from, r |-> rs[i].r, ts |-> rs[i].ts])
        IN  [k \in DOMAIN res |-> [pos |-> TRUE, r |-> res[k].r, ts |-> res[k].ts]]])

Joiner_forward(rs, from) ==
    Flatten([i \in DOMAIN rs |->
        LET res == Joiner_join([node |-> from, r |-> rs[i].r, ts |-> rs[i].ts])
        IN  [k \in DOMAIN res |->
                [pos |-> rs[i].pos, r |-> res[k].r, ts |-> res[k].ts]]])

\* query::Query::feed: the row, when it satisfies every condition of the query
Query_feeds(having, r) ==
    \A i \in DOMAIN having : r[having[i].column + 1] = having[i].value

\* no query: find(None, ..) and query(None, ..)
NoQuery == <<>>

\* no query has run since the last write
NotAsked == [done |-> FALSE, rows |-> <<>>]

\* Joiner::query(q, ts): the outer loop runs over the source of lowest index
Joiner_query_NoFeed(having) ==
    LET lefti == CHOOSE n \in DOMAIN joiner.join : \A m \in DOMAIN joiner.join : n <= m
        mine == SelectSeq(having, LAMBDA c : joiner.emit[c.column + 1][1] = lefti)
        lparams == [i \in DOMAIN mine |->
                       [column |-> joiner.emit[mine[i].column + 1][2],
                        value |-> mine[i].value]]
        lrows == Node_find(NodeState(lefti), lparams)
    IN  Flatten([i \in DOMAIN lrows |->
                Joiner_join([node |-> lefti, r |-> lrows[i].r, ts |-> lrows[i].ts])])
Joiner_query(having) ==
    LET lefti == CHOOSE n \in DOMAIN joiner.join : \A m \in DOMAIN joiner.join : n <= m
        mine == SelectSeq(having, LAMBDA c : joiner.emit[c.column + 1][1] = lefti)
        lparams == [i \in DOMAIN mine |->
                       [column |-> joiner.emit[mine[i].column + 1][2],
                        value |-> mine[i].value]]
        lrows == Node_find(NodeState(lefti), lparams)
        product == Flatten([i \in DOMAIN lrows |->
                      Joiner_join([node |-> lefti, r |-> lrows[i].r, ts |-> lrows[i].ts])])
    IN  SelectSeq(product, LAMBDA e : Query_feeds(having, e.r))

\* the records of an update without their timestamps, as the store takes them
Unstamp(rs) == [i \in DOMAIN rs |-> [pos |-> rs[i].pos, r |-> rs[i].r]]

(***************************************************************************)
(* Initial values                                                          *)
(***************************************************************************)

MaxBatch == 2
MaxLatestOps == 2
MaxOps == 4
MaxQueryOps == 3
MaxWrites == 2
ChunkLen == 1

\* the key column of a base node's state
BaseKey == 0

\* the key column of the join's materialized output (its join column)
JoinKey == 0

(***************************************************************************)
(* Migration: flow::migrate::materialization                               *)
(*                                                                         *)
(* The graph is a map from node index to node; a node has a kind, the      *)
(* domain it is assigned to and its parents in edge order. Node 0 is the   *)
(* source every base node hangs off.                                       *)
(***************************************************************************)

Source == 0
NoNode == -1

GraphNode(kind, domain, parents) == [kind |-> kind, domain |-> domain, parents |-> parents]

\* graph.neighbors_directed(node, Incoming) / (node, Outgoing)
Parents(g, n) == {g.nodes[n].parents[i] : i \in DOMAIN g.nodes[n].parents}
Children(g, n) == {c \in DOMAIN g.nodes : n \in Parents(g, c)}

DomainOf(g, n) == g.nodes[n].domain
DomainsOf(g) == {g.nodes[n].domain : n \in DOMAIN g.nodes \ {Source}}

Reverse(s) == [i \in DOMAIN s |-> s[Len(s) + 1 - i]]
Last(s) == s[Len(s)]

\* petgraph::visit::Topo: a node is visited once all its parents have been;
\* among the nodes that can be visited the one added first goes first
RECURSIVE Topo(_, _)
Topo(g, visited) ==
    LET free == {n \in DOMAIN g.nodes \ visited : Parents(g, n) \subseteq visited}
    IN  IF free = {} THEN <<>>
        ELSE LET n == CHOOSE n \in free : \A m \in free : n <= m
             IN  <<n>> \o Topo(g, visited \cup {n})

\* initialize: the new nodes, ancestors first
topo_list(g) == SelectSeq(Topo(g, {}), LAMBDA n : n # Source /\ n \in g.new)

\* initialize: the indices the plan gives the node, none if not materialized
index_on(g, node) ==
    IF node \in DOMAIN g.materialize THEN g.materialize[node] ELSE <<>>

\* initialize: whether the node holds state; a reader holds its own
has_state(g, node) ==
    index_on(g, node) # <<>> \/ g.nodes[node].kind = "reader"

\* AllParentsEmpty that asks the source to be known empty too
AllParentsEmpty_Source(g, node, empty) ==
    \A n \in Parents(g, node) : n \in empty

\* initialize: every parent but the source is known to be empty
AllParentsEmpty(g, node, empty) ==
    \A n \in Parents(g, node) \ {Source} : n \in empty

\* Ingredient::replay_ancestor: a join replays its left side unless that side
\* is empty; any other operator replays all its parents
replay_ancestor(g, node, empty) ==
    IF g.nodes[node].kind = "join"
    THEN IF g.nodes[node].parents[1] \notin empty
         THEN g.nodes[node].parents[1]
         ELSE g.nodes[node].parents[2]
    ELSE NoNode

\* trace that goes on to every parent of a join
RECURSIVE trace_AllParents(_, _, _, _)
trace_AllParents(g, node, empty, path) ==
    LET is_materialized ==
            IF Len(path) = 1 THEN FALSE ELSE node \in DOMAIN g.materialize
        live == SelectSeq(g.nodes[node].parents, LAMBDA p : p \notin empty)
    IN  IF is_materialized THEN <<path>>
        ELSE Flatten([i \in DOMAIN live |->
                         trace_AllParents(g, live[i], empty, Append(path, live[i]))])

\* trace that only stops at a base node
RECURSIVE trace_ToBase(_, _, _, _)
trace_ToBase(g, node, empty, path) ==
    LET parents == g.nodes[node].parents
        emptyp == Parents(g, node) \cap empty
        picked ==
            IF Len(parents) # 1 /\ replay_ancestor(g, node, emptyp) # NoNode
            THEN SelectSeq(parents, LAMBDA p : p = replay_ancestor(g, node, emptyp))
            ELSE parents
        live == SelectSeq(picked, LAMBDA p : p \notin empty)
    IN  IF Len(path) # 1 /\ g.nodes[node].kind = "base" THEN <<path>>
        ELSE Flatten([i \in DOMAIN live |->
                         trace_ToBase(g, live[i], empty, Append(path, live[i]))])

\* trace: the paths from node up to its closest materialized ancestors, each
\* listed from node upwards
RECURSIVE trace(_, _, _, _)
trace(g, node, empty, path) ==
    LET is_materialized ==
            IF Len(path) = 1 THEN FALSE ELSE node \in DOMAIN g.materialize
        parents == g.nodes[node].parents
        emptyp == Parents(g, node) \cap empty
        picked ==
            IF Len(parents) # 1 /\ replay_ancestor(g, node, emptyp) # NoNode
            THEN SelectSeq(parents, LAMBDA p : p = replay_ancestor(g, node, emptyp))
            ELSE parents
        live == SelectSeq(picked, LAMBDA p : p \notin empty)
    IN  IF is_materialized THEN <<path>>
        ELSE Flatten([i \in DOMAIN live |->
                         trace(g, live[i], empty, Append(path, live[i]))])

\* reconstruct: the maximal runs of nodes of one domain along the path
RECURSIVE Segments(_, _, _)
Segments(g, path, segments) ==
    IF path = <<>> THEN segments
    ELSE LET node == Head(path)
             domain == DomainOf(g, node)
         IN  IF segments = <<>> \/ Last(segments).domain # domain
             THEN Segments(g, Tail(path),
                           Append(segments, [domain |-> domain, nodes |-> <<node>>]))
             ELSE Segments(g, Tail(path),
                           [segments EXCEPT ![Len(segments)].nodes = Append(@, node)])

\* locals that keeps the node the replay starts from
locals_All(segments, i) == segments[i].nodes

\* reconstruct: the nodes of segment i that are replayed through; the replay
\* does not go through the node it starts from (segments count from 1 here)
locals(segments, i) ==
    IF i = 1 THEN Tail(segments[i].nodes) ELSE segments[i].nodes

\* FirstSeen that finds no domain twice
FirstSeen_Never(segments) == Len(segments) + 1

\* reconstruct: the first segment whose domain an earlier segment had, or
\* one past the last segment if there is none
FirstSeen(segments) ==
    LET again == {j \in DOMAIN segments :
                      \E i \in 1..(j - 1) : segments[i].domain = segments[j].domain}
    IN  IF again = {} THEN Len(segments) + 1
        ELSE CHOOSE j \in again : \A k \in again : j <= k

(***************************************************************************)
(* Tags                                                                    *)
(*                                                                         *)
(* TAG_GENERATOR is an AtomicUsize, a word of 64 bits, and a Tag holds a   *)
(* u32.  A word is written as its four 16-bit limbs, the most significant  *)
(* first, and a tag as its two.                                            *)
(***************************************************************************)

Limb == 65536

\* ATOMIC_USIZE_INIT
ZeroWord == <<0, 0, 0, 0>>

\* the tag of a packet that carries none
NoTag == <<0, 0>>

\* the word after n; fetch_add wraps around at the width of the word
RECURSIVE Succ(_, _)
Succ(n, i) ==
    IF i = 0 THEN n
    ELSE IF n[i] + 1 < Limb THEN [n EXCEPT ![i] = @ + 1]
    ELSE Succ([n EXCEPT ![i] = 0], i - 1)

\* TAG_GENERATOR.fetch_add(1, Ordering::SeqCst): the value the counter is left
\* with (the value it had is the one returned)
fetch_add(n) == Succ(n, Len(n))

\* Tag(n as u32): the low 32 bits of the counter
Tag(n) == <<n[3], n[4]>>

\* the order of tags (derived Ord of Tag(u32)), and of words alike
RECURSIVE TagLess(_, _)
TagLess(a, b) ==
    /\ a # <<>>
    /\ \/ Head(a) < Head(b)
       \/ Head(a) = Head(b) /\ TagLess(Tail(a), Tail(b))

(***************************************************************************)
(* Packets                                                                 *)
(***************************************************************************)

NoPacket ==
    [type |-> "None", node |-> NoNode, from |-> NoNode, index |-> <<>>,
     tag |-> NoTag,
     path |-> <<>>, done |-> FALSE, rs |-> <<>>, ts |-> 0]

Message(from, to, rs, ts) ==
    [NoPacket EXCEPT !.type = "Message", !.from = from, !.node = to, !.rs = rs,
                     !.ts = ts]
Ready(node, index) ==
    [NoPacket EXCEPT !.type = "Ready", !.node = node, !.index = index]
PrepareState(node, index) ==
    [NoPacket EXCEPT !.type = "PrepareState", !.node = node, !.index = index]
SetupReplayPath(tag, path, done) ==
    [NoPacket EXCEPT !.type = "SetupReplayPath", !.tag = tag, !.path = path,
                     !.done = done]
StartReplay(tag, from) ==
    [NoPacket EXCEPT !.type = "StartReplay", !.tag = tag, !.node = from]
ReplayChunk(tag, rs, ts, done) ==
    [NoPacket EXCEPT !.type = "ReplayChunk", !.tag = tag, !.rs = rs, !.ts = ts,
                     !.done = done]

\* txs[&d].send(p)
Send(inbox, d, p) == [inbox EXCEPT ![d] = Append(@, p)]

RECURSIVE SendAll(_, _)
SendAll(inbox, ps) ==
    IF ps = <<>> THEN inbox
    ELSE SendAll(Send(inbox, Head(ps).to, Head(ps).packet), Tail(ps))

\* reconstruct: the SetupReplayPath of segment i, for the domain of the segment
Setup(segments, i, tag) ==
    [to |-> segments[i].domain,
     packet |-> SetupReplayPath(tag, locals(segments, i), i = Len(segments))]

\* reconstruct: the packets of the loop over the segments, which stops at a
\* domain seen before and skips a first segment that only has the root
SetupPackets(segments, tag) ==
    LET sent == SelectSeq([i \in 1..(FirstSeen(segments) - 1) |-> i],
                          LAMBDA i : locals(segments, i) # <<>>)
    IN  [k \in DOMAIN sent |-> Setup(segments, sent[k], tag)]

\* reconstruct: tags.insert(tag, segments[i + 1].1[0]) in the egress node
\* that ends each segment but the last
RECURSIVE InsertTags(_, _, _, _)
InsertTags(tags, segments, i, tag) ==
    IF i >= Len(segments) \/ i >= FirstSeen(segments) THEN tags
    ELSE IF locals(segments, i) = <<>>
         THEN InsertTags(tags, segments, i + 1, tag)
         ELSE InsertTags([tags EXCEPT ![Last(segments[i].nodes)] =
                              MapPut(@, tag, segments[i + 1].nodes[1])],
                         segments, i + 1, tag)

(***************************************************************************)
(* The domains                                                             *)
(*                                                                         *)
(* Each domain takes one packet at a time from its inbox. A record of the  *)
(* fields below is the state of all domains together; every node belongs   *)
(* to one domain, so the maps by node are disjoint per domain.             *)
(***************************************************************************)

\* ops::union::Union::drain: the columns `emit` of every record
Union_drain(emit, rs) ==
    [i \in DOMAIN rs |->
        [pos |-> rs[i].pos, r |-> [c \in DOMAIN emit |-> rs[i].r[emit[c] + 1]]]]

\* a union over one ancestor emits both columns of it
UnionEmit == <<0, 1>>

\* the joiner's index of a source: the two sources of a join are the nodes
\* 1 and 2 of the graph and the sources 0 and 1 of the joiner
JoinerIndex(n) == n - 1

\* what the node's operator makes of an update that comes from `from`; base,
\* ingress, egress and reader nodes pass it on
NodeOnInput(g, n, from, rs, ts) ==
    IF g.nodes[n].kind = "union" THEN Union_drain(UnionEmit, rs)
    ELSE IF g.nodes[n].kind = "join"
    THEN Unstamp(Joiner_forward([i \in DOMAIN rs |-> Stamped(rs[i], ts)],
                                JoinerIndex(from)))
    ELSE rs

\* the replay target is held back: a replay path that ends in it is
\* registered with a done channel, and the replay has not completed
Suspended(g, S, n) ==
    /\ n \notin S.ready
    /\ \E tag \in DOMAIN S.rpaths[DomainOf(g, n)] :
          LET rp == S.rpaths[DomainOf(g, n)][tag]
          IN  rp.done /\ Last(rp.path) = n

\* the node absorbs the update into its state, if it has state
Absorb(S, n, rs, ts) ==
    IF n \in DOMAIN S.data
    THEN [S EXCEPT !.data[n] = WriteHandle_add(@, rs, BaseKey),
                   !.epoch[n] = Max(@, ts)]
    ELSE S

\* the domain dispatches an update to a node: a node that is not ready gets
\* nothing (the update is held if the node is a suspended replay target);
\* a ready node processes it and the result goes to its children, directly
\* in the same domain and as a Message to the inbox of another domain
RECURSIVE Dispatch(_, _, _, _, _, _)
RECURSIVE FanOut(_, _, _, _, _, _)
Dispatch(g, S, n, from, rs, ts) ==
    IF n \notin S.ready
    THEN IF Suspended(g, S, n)
         THEN [S EXCEPT !.held[n] = Append(@, [from |-> from, rs |-> rs, ts |-> ts])]
         ELSE S
    ELSE LET out == NodeOnInput(g, n, from, rs, ts)
         IN  FanOut(g, Absorb(S, n, out, ts), n, Children(g, n), out, ts)
FanOut(g, S, n, cs, rs, ts) ==
    IF cs = {} THEN S
    ELSE LET c == CHOOSE c \in cs : \A m \in cs : c <= m
         IN  FanOut(g,
                    IF DomainOf(g, c) # DomainOf(g, n)
                    THEN [S EXCEPT !.inbox = Send(@, DomainOf(g, c), Message(n, c, rs, ts))]
                    ELSE Dispatch(g, S, c, n, rs, ts),
                    n, cs \ {c}, rs, ts)

\* the held updates the snapshot does not have yet are applied in order
RECURSIVE Release(_, _, _, _)
Release(g, S, n, held) ==
    IF held = <<>> THEN S
    ELSE Release(g,
                 IF Head(held).ts > S.epoch[n]
                 THEN Dispatch(g, S, n, Head(held).from, Head(held).rs, Head(held).ts)
                 ELSE S,
                 n, Tail(held))

\* the largest timestamp the domain of node n has processed
Clock(g, S, n) ==
    LET mine == {m \in DOMAIN S.epoch : DomainOf(g, m) = DomainOf(g, n)}
    IN  CHOOSE t \in {S.epoch[m] : m \in mine} : \A m \in mine : S.epoch[m] <= t

\* the source's rows as positive records in chunks of ChunkLen, the last
\* chunk marked done; all carry the timestamp of the snapshot
RECURSIVE Chunks(_, _)
Chunks(rows, ts) ==
    IF Len(rows) <= ChunkLen
    THEN <<[rs |-> [i \in DOMAIN rows |-> Positive(rows[i])], ts |-> ts, done |-> TRUE]>>
    ELSE <<[rs |-> [i \in 1..ChunkLen |-> Positive(rows[i])], ts |-> ts, done |-> FALSE]>>
             \o Chunks(SubSeq(rows, ChunkLen + 1, Len(rows)), ts)

\* the chunk goes through the operators of the path's nodes in order
RECURSIVE ReplayThrough(_, _, _, _, _)
ReplayThrough(g, from, path, rs, ts) ==
    IF path = <<>> THEN rs
    ELSE ReplayThrough(g, Head(path), Tail(path),
                       NodeOnInput(g, Head(path), from, rs, ts), ts)

\* a domain processes a replay chunk that comes from `from` along the path
\* registered for the tag: the last domain installs it in the target's state
\* and, on the final chunk, marks the target ready, applies what was held and
\* signals done; any other domain hands it to the ingress the egress has for
\* the tag
ReplayIn(g, S, d, from, tag, chunk) ==
    LET rp == S.rpaths[d][tag]
        n == Last(rp.path)
        rs == ReplayThrough(g, from, rp.path, chunk.rs, chunk.ts)
    IN  IF tag \notin DOMAIN S.rpaths[d] THEN [dom |-> S, done |-> FALSE]
        ELSE IF rp.done
        THEN LET S1 == Absorb(S, n, rs, chunk.ts)
                 S2 == [S1 EXCEPT !.ready = @ \cup {n}, !.held[n] = <<>>]
             IN  IF chunk.done
                 THEN [dom |-> Release(g, S2, n, S1.held[n]), done |-> TRUE]
                 ELSE [dom |-> S1, done |-> FALSE]
        ELSE LET to == S.tags[n][tag]
             IN  [dom |-> [S EXCEPT !.inbox = Send(@, DomainOf(g, to),
                              ReplayChunk(tag, rs, chunk.ts, chunk.done))],
                  done |-> FALSE]

\* the root domain emits the chunks of the snapshot one after the other
RECURSIVE ReplayAll(_, _, _, _, _, _)
ReplayAll(g, Sd, d, from, tag, chunks) ==
    IF chunks = <<>> THEN Sd
    ELSE LET next == ReplayIn(g, Sd.dom, d, from, tag, Head(chunks))
         IN  ReplayAll(g, [dom |-> next.dom, done |-> Sd.done \/ next.done],
                       d, from, tag, Tail(chunks))

\* the base nodes, which are written to, and the new node that holds state
Bases(g) == {n \in DOMAIN g.nodes : g.nodes[n].kind = "base"}
Target(g) == CHOOSE n \in g.new : g.nodes[n].kind \in {"reader", "union", "join"}

\* the rows written to a base: the second base is the join's other source
BaseRows(n) == IF n = 1 THEN Rows ELSE RRows

\* an index on the first column
Indexed == <<<<0>>>>

\* a base node with data and a new node below it in the same domain: a
\* reader, or a materialized union over the base
ChainSame(kind) ==
    [nodes |-> (0 :> GraphNode("source", 0, <<>>))
                 @@ (1 :> GraphNode("base", 0, <<0>>))
                 @@ (2 :> GraphNode(kind, 0, <<1>>)),
     new |-> {2},
     materialize |-> IF kind = "union" THEN (1 :> Indexed) @@ (2 :> Indexed)
                     ELSE (1 :> Indexed)]

\* the same with the new node in a domain of its own, behind an egress and
\* an ingress node
ChainCross(kind) ==
    [nodes |-> (0 :> GraphNode("source", 0, <<>>))
                 @@ (1 :> GraphNode("base", 0, <<0>>))
                 @@ (2 :> GraphNode("egress", 0, <<1>>))
                 @@ (3 :> GraphNode("ingress", 1, <<2>>))
                 @@ (4 :> GraphNode(kind, 1, <<3>>)),
     new |-> {2, 3, 4},
     materialize |-> IF kind = "union" THEN (1 :> Indexed) @@ (4 :> Indexed)
                     ELSE (1 :> Indexed)]

\* two base nodes with data and a new node that joins them and is
\* materialized, all in one domain
JoinTwo ==
    [nodes |-> (0 :> GraphNode("source", 0, <<>>))
                 @@ (1 :> GraphNode("base", 0, <<0>>))
                 @@ (2 :> GraphNode("base", 0, <<0>>))
                 @@ (3 :> GraphNode("join", 0, <<1, 2>>)),
     new |-> {3},
     materialize |-> (1 :> Indexed) @@ (2 :> Indexed) @@ (3 :> Indexed)]

Graphs == {ChainSame(kind) : kind \in {"reader", "union"}}
              \cup {ChainCross(kind) : kind \in {"reader", "union"}}
              \cup {JoinTwo}

\* the engine started with the old nodes of g, before the migration that
\* adds the new ones; word is what the migrations before it have left in
\* TAG_GENERATOR
MigStartAt(g, word) ==
    LET old == DOMAIN g.nodes \ g.new
        stateful == {n \in DOMAIN g.nodes :
                        \/ n \in old /\ n \in DOMAIN g.materialize
                        \/ g.nodes[n].kind = "reader"}
    IN  /\ graph = g
        /\ plan = [pc |-> "node", i |-> 1, empty |-> {}, paths |-> <<>>,
                   tag |-> NoTag, segments |-> <<>>, tagGen |-> word]
        /\ chan = [wait |-> 0, done |-> FALSE, ack |-> FALSE]
        /\ dom = [inbox |-> [d \in DomainsOf(g) |-> <<>>],
                  ready |-> old,
                  data |-> [n \in stateful |-> EmptyStore],
                  epoch |-> [n \in stateful |-> -1],
                  rpaths |-> [d \in DomainsOf(g) |-> <<>>],
                  held |-> [n \in DOMAIN g.nodes |-> <<>>],
                  tags |-> [n \in {m \in DOMAIN g.nodes : g.nodes[m].kind = "egress"}
                              |-> <<>>]]
        /\ wr = [n |-> 0, ref |-> [b \in Bases(g) |-> EmptyStore],
                 view |-> EmptyStore]

\* the first migration of the process
MigStart(g) == MigStartAt(g, ZeroWord)

(***************************************************************************)
(* Union: ops::union::Union                                                *)
(*                                                                         *)
(* The union of the tests: ancestor 0 has two columns, ancestor 1 three,   *)
(* and the union has two. `emit` is the sequence of the two emit lists,    *)
(* that of ancestor a at position a + 1.                                   *)
(***************************************************************************)

\* the two ancestors and, as prime records it, their numbers of columns
UnionSrcs == {0, 1}
UnionCols == <<2, 3>>

\* the rows an ancestor can hold or send
UnionRows(a) ==
    IF a = 0 THEN {<<"1", "a">>, <<"2", "b">>}
    ELSE {<<"1", "skipped", "x">>}

\* the loop of Union::new over one emit list: `&emit[0]` fails on an empty
\* list, and only a step down reaches unimplemented!()
Union_new_list(e) ==
    IF e = <<>> THEN "index out of bounds"
    ELSE IF \E i \in 2..Len(e) : e[i] < e[i - 1] THEN "unimplemented"
    ELSE "ok"

\* Union::new: the union is built when no list makes the loop panic
Union_new(emit) == \A a \in DOMAIN emit : Union_new_list(emit[a]) = "ok"

\* the closure of Union::drain: the record made of one input record
Union_drain1_Positive(e, rec) ==
    [pos |-> TRUE, r |-> [c \in DOMAIN e |-> rec.r[e[c] + 1]], ts |-> rec.ts]
Union_drain1(e, rec) ==
    [pos |-> rec.pos, r |-> [c \in DOMAIN e |-> rec.r[e[c] + 1]], ts |-> rec.ts]

\* the flat_map of Union::drain over (from, rs) pairs
Union_drainAll(emit, it) ==
    Flatten([i \in DOMAIN it |->
                [j \in DOMAIN it[i].rs |->
                    Union_drain1(emit[it[i].from + 1], it[i].rs[j])]])

\* ProcessingResult::Done(Update::Records(rs)), or Skip for no record
Union_drain_result(emit, it) ==
    LET rs == Union_drainAll(emit, it)
    IN  IF rs # <<>> THEN [kind |-> "Done", rs |-> rs]
        ELSE [kind |-> "Skip", rs |-> <<>>]

\* Option<Update>: None
NoUpdate == [some |-> FALSE, rs |-> <<>>]
SomeUpdate(rs) == [some |-> TRUE, rs |-> rs]

\* the orders in which HashMap::drain may yield the entries of gather
Orders(g) ==
    {o \in [1..Cardinality(DOMAIN g) -> DOMAIN g] :
        \A i, j \in DOMAIN o : i # j => o[i] # o[j]}

\* Union::forward(u, from, _, last, _), gather being drained in order o: the
\* new gather and the result
Union_forward_NoGather(emit, g, o, u, from, last) ==
    IF u.some /\ ~last
    THEN [gather |-> MapPut(g, from, u.rs),
          out |-> [kind |-> "Accepted", rs |-> <<>>]]
    ELSE [gather |-> EmptyStore,
          out |-> Union_drain_result(emit,
                      IF u.some THEN <<[from |-> from, rs |-> u.rs]>> ELSE <<>>)]
Union_forward(emit, g, o, u, from, last) ==
    IF u.some /\ ~last
    THEN [gather |-> MapPut(g, from, u.rs),
          out |-> [kind |-> "Accepted", rs |-> <<>>]]
    ELSE [gather |-> EmptyStore,
          out |-> Union_drain_result(emit,
                      [i \in DOMAIN o |-> [from |-> o[i], rs |-> g[o[i]]]]
                      \o (IF u.some THEN <<[from |-> from, rs |-> u.rs]>> ELSE <<>>))]

\* Option<&query::Query>: None, or a query that selects every column of the
\* union and has the conditions `having`
NoUnionQuery == [some |-> FALSE, having |-> <<>>]
SomeQuery(having) == [some |-> TRUE, having |-> having]

\* the conditions Union::query gives to ancestor a: those of q with their
\* column read through emit[a]
Union_params(e, q) ==
    [i \in DOMAIN q.having |->
        [column |-> e[q.having[i].column + 1], value |-> q.having[i].value]]

\* the mask Union::query gives to ancestor a: true at the columns of emit[a]
Union_select(e, cols) == [c \in 1..cols |-> \E i \in DOMAIN e : e[i] = c - 1]

\* the projection of query::Query: the columns of r the mask selects
RECURSIVE Query_project(_, _)
Query_project(select, r) ==
    IF select = <<>> \/ r = <<>> THEN <<>>
    ELSE (IF Head(select) THEN <<Head(r)>> ELSE <<>>)
             \o Query_project(Tail(select), Tail(r))

\* self.srcs[&src].find(Some(&Query::new(&select, cs)), Some(ts)): the rows of
\* the ancestor that satisfy cs, projected by the mask
Union_find(e, cols, state, q) ==
    LET found == Node_find(state, Union_params(e, q))
    IN  [i \in DOMAIN found |-> Query_project(Union_select(e, cols), found[i].r)]

\* whether q.feed(r) reads a column the row does not have
Feed_fails(q, r) == \E i \in DOMAIN q.having : q.having[i].column + 1 > Len(r)

\* Union::query(q, ts): the rows found in each ancestor, fed to q when there
\* is one
Union_query(emit, srcs, q) ==
    LET rows == Flatten([a \in DOMAIN emit |->
                    Union_find(emit[a], UnionCols[a], srcs[a], q)])
    IN  [done |-> TRUE,
         panic |-> q.some /\ \E i \in DOMAIN rows : Feed_fails(q, rows[i]),
         rows |-> IF q.some
                  THEN SelectSeq(rows, LAMBDA r :
                           ~Feed_fails(q, r) /\ Query_feeds(q.having, r))
                  ELSE rows]

\* a union that was given nothing yet
UnionIdle ==
    [emit |-> <<<<0, 1>>, <<0, 2>>>>, status |-> "given", srcs |-> <<<<>>, <<>>>>,
     gather |-> EmptyStore, calls |-> 0, since |-> <<>>,
     in |-> [u |-> NoUpdate, from |-> 0, last |-> TRUE, held |-> EmptyStore],
     out |-> [kind |-> "None", rs |-> <<>>],
     q |-> NoUnionQuery, res |-> [done |-> FALSE, panic |-> FALSE, rows |-> <<>>]]

(***************************************************************************)
(* pick: which nodes of a domain hold state                                *)
(*                                                                         *)
(* A domain graph g has the nodes 1..Len(g.kind), every parent of a node   *)
(* having a smaller number; g.parents[n] is the set of parents of n and    *)
(* g.mat the set of edges <<parent, child>> whose weight is true.          *)
(***************************************************************************)

PNodes(g) == DOMAIN g.kind
PParents(g, n) == g.parents[n]
PChildren(g, n) == {c \in PNodes(g) : n \in g.parents[c]}

\* flow::node::Type::Internal / Ingress
IsInternal(g, n) == g.kind[n] # "ingress"
IsIngress(g, n) == g.kind[n] = "ingress"

\* Ingredient::should_materialize: a base and Latest keep their own state
should_materialize(g, n) == g.kind[n] \in {"base", "latest"}

\* Ingredient::can_query_through: a filter passes queries on to its parent
can_query_through(g, n) == g.kind[n] = "filter"

\* Node::will_query(materialized): Latest and a join look up their ancestors
\* whether or not they hold state
will_query(g, n, materialized) == g.kind[n] \in {"latest", "join"}

\* Node::is_base
is_base(g, n) == g.kind[n] = "base"

\* graph.edges_directed(ni, Outgoing).any(|e| *e.weight())
HasMaterializedEdge(g, n) == \E c \in PChildren(g, n) : <<n, c>> \in g.mat

\* pick_initial without the look at the outgoing edges
pick_initial_NoEdges(g) ==
    {n \in PNodes(g) : IsInternal(g, n) /\ should_materialize(g, n)}

\* pick, lines 45-74: the internal nodes that ask for state or have a
\* materialized outgoing edge
pick_initial(g) ==
    {n \in PNodes(g) :
        IsInternal(g, n) /\ (should_materialize(g, n) \/ HasMaterializedEdge(g, n))}

\* pick_walk that stops at a parent that can be queried through
RECURSIVE pick_walk_Stop(_, _, _, _)
pick_walk_Stop(g, q, m, inq) ==
    IF q = {} THEN [materialize |-> m, inquisitive |-> inq]
    ELSE LET ni == CHOOSE x \in q : TRUE
             ps == {p \in PParents(g, ni) : IsInternal(g, p) /\ p \notin m}
             through == {p \in ps : can_query_through(g, p)}
         IN  pick_walk_Stop(g, q \ {ni}, m \cup (ps \ through), inq \cup through)

\* pick, the while loop over q with mark_parent_inquisitive_or_materialize:
\* q holds the nodes whose parents are still to be looked at
RECURSIVE pick_walk(_, _, _, _)
pick_walk(g, q, m, inq) ==
    IF q = {} THEN [materialize |-> m, inquisitive |-> inq]
    ELSE LET ni == CHOOSE x \in q : TRUE
             ps == {p \in PParents(g, ni) : IsInternal(g, p) /\ p \notin m}
             through == {p \in ps : can_query_through(g, p)}
         IN  pick_walk(g, (q \ {ni}) \cup through, m \cup (ps \ through),
                       inq \cup through)

\* pick, lines 102-125: the loop over the nodes in their given order
RECURSIVE pick_querying(_, _, _, _)
pick_querying(g, order, m, inq) ==
    IF order = <<>> THEN [materialize |-> m, inquisitive |-> inq]
    ELSE LET n == Head(order)
         IN  IF IsInternal(g, n) /\ will_query(g, n, n \in m)
             THEN LET w == pick_walk(g, {n}, m, inq \cup {n})
                  IN  pick_querying(g, Tail(order), w.materialize, w.inquisitive)
             ELSE pick_querying(g, Tail(order), m, inq)

\* pick_ingress that materializes no ingress node
pick_ingress_None(g, m, inq) == m

\* pick, lines 128-139: ingress nodes with an inquisitive child
pick_ingress(g, m, inq) ==
    m \cup {n \in PNodes(g) : IsIngress(g, n) /\ PChildren(g, n) \cap inq # {}}

\* pick, lines 143-167: hoisting, node after node in the given order
RECURSIVE pick_hoist(_, _, _)
pick_hoist(g, order, m) ==
    IF order = <<>> THEN m
    ELSE LET n == Head(order)
         IN  IF /\ IsInternal(g, n) /\ can_query_through(g, n)
                /\ n \in m /\ HasMaterializedEdge(g, n)
             THEN pick_hoist(g, Tail(order), (m \ {n}) \cup PParents(g, n))
             ELSE pick_hoist(g, Tail(order), m)

\* pick(log, graph, nodes): the set returned, with the inquisitive children
pick(g, order) ==
    LET q == pick_querying(g, order, pick_initial(g), {})
    IN  [materialize |-> pick_hoist(g, order,
                            pick_ingress(g, q.materialize, q.inquisitive)),
         inquisitive |-> q.inquisitive]

(***************************************************************************)
(* index: which columns of the nodes that hold state are indexed           *)
(***************************************************************************)

\* the join columns of a join: column 0 of its left parent against column 1
\* of its right parent, the left one being emitted as output column 0
IndexJoinFields == <<0, 1>>
IndexJoinOut == 0

\* the left and the right parent of a join
LeftParent(g, n) == CHOOSE p \in PParents(g, n) : \A x \in PParents(g, n) : p <= x
RightParent(g, n) == CHOOSE p \in PParents(g, n) : \A x \in PParents(g, n) : p >= x

\* Ingredient::suggest_indexes(this): pairs <<node, column list>>.  Latest
\* indexes its key on itself; a join indexes the join columns on its parents
\* and the emitted join column on itself; the other kinds suggest nothing.
suggest_indexes(g, n) ==
    IF g.kind[n] = "latest" THEN {<<n, <<LatestKey>>>>}
    ELSE IF g.kind[n] = "join"
    THEN {<<LeftParent(g, n), <<IndexJoinFields[1]>>>>,
          <<RightParent(g, n), <<IndexJoinFields[2]>>>>,
          <<n, <<IndexJoinOut>>>>}
    ELSE {}

\* index, lines 194-216: the suggestions of the internal nodes that query
Suggestions(g) ==
    UNION {suggest_indexes(g, n) :
              n \in {x \in PNodes(g) : IsInternal(g, x) /\ will_query(g, x, FALSE)}}

\* the column lists suggested for node v
SuggestedFor(g, v) == {sg[2] : sg \in {x \in Suggestions(g) : x[1] = v}}

\* index without the default index of a base
index_NoDefault(g, m) ==
    [panic |-> \E sg \in Suggestions(g) : sg[1] \notin m /\ IsIngress(g, sg[1]),
     index |-> [n \in {x \in m : SuggestedFor(g, x) # {}} |-> SuggestedFor(g, n)]]

\* index(log, graph, nodes, materialize): it panics on a suggestion for an
\* ingress node without state and drops one for an internal node without
\* state (lines 225-251); the nodes with state get the suggested column
\* lists, in no particular order, a base without any gets column 0, and the
\* others are left out (lines 260-280)
index(g, m) ==
    [panic |-> \E sg \in Suggestions(g) : sg[1] \notin m /\ IsIngress(g, sg[1]),
     index |-> [n \in {x \in m : SuggestedFor(g, x) # {}
                                  \/ (IsInternal(g, x) /\ is_base(g, x))} |->
                   IF SuggestedFor(g, n) # {} THEN SuggestedFor(g, n) ELSE {<<0>>}]]

\* no domain graph given yet
PickIdle ==
    [g |-> [kind |-> <<>>, parents |-> <<>>, mat |-> {}],
     picked |-> FALSE, materialize |-> {}, inquisitive |-> {},
     indexed |-> FALSE, panic |-> FALSE, index |-> <<>>]

\* no record applied yet
NoRecord == [pos |-> TRUE, r |-> <<>>]

\* the store after commit, an idle writer and a reader that has not read
StoreStart ==
    /\ store = BufferedStoreBuilder_commit
    /\ wh = [pc |-> "idle", n |-> 0, ups |-> 0, rec |-> NoRecord,
             before |-> EmptyStore, swapped |-> EmptyStore,
             commits |-> {[epoch |-> -1, data |-> EmptyStore]}]
    /\ rd = [pc |-> "idle", reads |-> 0, key |-> None, ok |-> FALSE,
             rows |-> <<>>, expect |-> <<>>, epoch |-> -1, prev |-> -1]

RestIdle == StoreStart /\ un = UnionIdle /\ pk = PickIdle /\ votes = <<>>

InitLatestVars ==
    /\ bdata = EmptyStore
    /\ ldata = EmptyStore
    /\ lpanic = FALSE
    /\ lin = <<>>
    /\ lout = <<>>
    /\ lprev = EmptyStore

\* the join of the tests' setup(left), with the two sources at either index:
\* Builder::new([(l,0), (l,1), (r,1)]).from(l, [1,0]) and .join(r, [1,0]) or
\* .left_join(r, [1,0])
TestBuilder(l, outer) ==
    Builder_new(<<<<l, 0>>, <<l, 1>>, <<OtherNode(l), 1>>>>,
                l, <<1, 0>>, OtherNode(l), <<1, 0>>, outer)

JoinStart(l, outer) ==
    /\ lnode = l
    /\ joiner = Joiner_from(TestBuilder(l, outer))
    /\ lstate = <<>>
    /\ rstate = <<>>
    /\ jdata = EmptyStore
    /\ jin = [from |-> l, rs |-> <<>>]
    /\ jout = <<>>
    /\ jq = NoQuery
    /\ jres = NotAsked

InitJoinVars == \E l \in {0, 1}, outer \in BOOLEAN : JoinStart(l, outer)

(***************************************************************************)
(* Specification SpecLatest: a Latest node fed with batches; the domain    *)
(* applies what on_input returns to the node's state.                      *)
(***************************************************************************)

\* the domain hands a batch to Latest and materializes the result
LatestProcess(rs) ==
    /\ lin' = rs
    /\ lpanic' = Latest_rejects(rs)
    /\ lprev' = ldata
    /\ lout' = Latest_on_input(rs, ldata)
    /\ ldata' = WriteHandle_add(ldata, Latest_on_input(rs, ldata), LatestKey)

LatestStep ==
    /\ ops < MaxLatestOps
    /\ \E rs \in SeqsUpTo(Records, MaxBatch) :
          /\ Retractable(bdata, rs, BaseKey)
          /\ bdata' = WriteHandle_add(bdata, rs, BaseKey)
          /\ LatestProcess(rs)
    /\ ops' = ops + 1
    /\ UNCHANGED <<joinVars, hist, migVars, restVars>>

\* the migration is not part of the flow specifications below
MigIdle == MigStart(ChainSame("reader"))

InitLatest ==
    /\ ops = 0 /\ InitLatestVars /\ JoinStart(0, FALSE) /\ hist = <<>>
    /\ MigIdle /\ RestIdle

NextLatest == LatestStep

SpecLatest == InitLatest /\ [][NextLatest]_vars

(***************************************************************************)
(* Specification Spec: a base node B feeding a Latest node and, as the     *)
(* `from` source, a join with a second base node R; the output of the join *)
(* is materialized in a store. Every write is processed to the end before  *)
(* the next one starts.                                                    *)
(***************************************************************************)

\* the updates written to a base: one record
OneRecord(rows) == {<<Positive(r)>> : r \in rows} \cup {<<Negative(r)>> : r \in rows}

\* a record inserted and retracted in one batch
InsertRetract(rows) == {<<Positive(r), Negative(r)>> : r \in rows}

RECURSIVE RetractableNode(_, _)
RetractableNode(state, rs) ==
    IF rs = <<>> THEN TRUE
    ELSE /\ Head(rs).pos \/ Position(RowsOf(state), Head(rs).r) # 0
         /\ RetractableNode(Node_absorb1(state, Stamped(Head(rs), 0)), Tail(rs))

\* the domain gives the update to the join and materializes what it emits
JoinProcess(rs, from) ==
    /\ jin' = [from |-> from, rs |-> rs]
    /\ jout' = Joiner_forward(rs, from)
    /\ jdata' = WriteHandle_add(jdata, Unstamp(Joiner_forward(rs, from)), JoinKey)

\* the last two updates, each with the stores it found
Remember(side, rs) ==
    LET e == [side |-> side, rs |-> rs, bdata |-> bdata, ldata |-> ldata, jdata |-> jdata]
    IN  hist' = IF hist = <<>> THEN <<e>> ELSE <<hist[Len(hist)], e>>

\* a write to B: B absorbs it, then Latest and the join process it
WriteLeft(max) ==
    /\ ops < max
    /\ \E rs \in OneRecord(Rows) \cup InsertRetract(Rows) :
          /\ Retractable(bdata, rs, BaseKey)
          /\ bdata' = WriteHandle_add(bdata, rs, BaseKey)
          /\ lstate' = Node_absorb(lstate, Stamp(lstate, rs, ops))
          /\ LatestProcess(rs)
          /\ JoinProcess(Stamp(lstate, rs, ops), lnode)
          /\ Remember("B", rs)
    /\ ops' = ops + 1
    /\ jq' = NoQuery
    /\ jres' = NotAsked
    /\ UNCHANGED <<lnode, joiner, rstate, migVars, restVars>>

\* a write to R: R absorbs it, then the join processes it
WriteRight(max) ==
    /\ ops < max
    /\ \E rs \in OneRecord(RRows) :
          /\ RetractableNode(rstate, rs)
          /\ rstate' = Node_absorb(rstate, Stamp(rstate, rs, ops))
          /\ JoinProcess(Stamp(rstate, rs, ops), OtherNode(lnode))
          /\ Remember("R", rs)
    /\ ops' = ops + 1
    /\ jq' = NoQuery
    /\ jres' = NotAsked
    /\ UNCHANGED <<latestVars, lnode, joiner, lstate, migVars, restVars>>

\* the conditions of a point query on the join: none, or one column = value
Queries ==
    {NoQuery} \cup {<<[column |-> 0, value |-> k]>> : k \in Keys}
        \cup {<<[column |-> 1, value |-> v]>> : v \in Vals}
        \cup {<<[column |-> 2, value |-> v]>> : v \in RVals}
        \cup {<<[column |-> 1, value |-> v], [column |-> 2, value |-> w]>> :
                v \in Vals, w \in RVals}

\* a point query on the join
JoinQuery ==
    /\ \E having \in Queries :
          /\ jq' = having
          /\ jres' = [done |-> TRUE, rows |-> Joiner_query(having)]
    /\ UNCHANGED <<ops, latestVars, lnode, joiner, lstate, rstate, jdata, jin, jout, hist,
                   migVars, restVars>>

Init ==
    /\ ops = 0 /\ InitLatestVars /\ InitJoinVars /\ hist = <<>> /\ MigIdle
    /\ RestIdle

Next == WriteLeft(MaxOps) \/ WriteRight(MaxOps)

Spec == Init /\ [][Next]_vars

(***************************************************************************)
(* Specification SpecQuery: the same flow, with point queries on the join  *)
(***************************************************************************)

NextQuery == WriteLeft(MaxQueryOps) \/ WriteRight(MaxQueryOps) \/ JoinQuery

SpecQuery == Init /\ [][NextQuery]_vars

(***************************************************************************)
(* Specification SpecReplay: a migration adds a node that holds state      *)
(* below a base node, while a writer keeps writing to the base. The        *)
(* planner (initialize, reconstruct), each domain and the writer take      *)
(* their steps in any order.                                               *)
(***************************************************************************)

\* initialize: the top of the loop over topo_list
PlanNode ==
    /\ plan.pc = "node"
    /\ plan.i <= Len(topo_list(graph))
    /\ LET node == topo_list(graph)[plan.i]
           d == DomainOf(graph, node)
           ready == [dom EXCEPT !.inbox = Send(@, d, Ready(node, index_on(graph, node)))]
       IN  IF AllParentsEmpty(graph, node, plan.empty)
           THEN /\ plan' = [plan EXCEPT !.pc = "ready", !.empty = @ \cup {node}]
                /\ dom' = ready
           ELSE IF ~has_state(graph, node)
           THEN /\ plan' = [plan EXCEPT !.pc = "ready"]
                /\ dom' = ready
           ELSE /\ plan' = [plan EXCEPT !.pc = "path",
                                        !.paths = trace(graph, node, plan.empty, <<node>>)]
                /\ dom' = IF graph.nodes[node].kind = "reader" THEN dom
                          ELSE [dom EXCEPT !.inbox =
                                   Send(@, d, PrepareState(node, index_on(graph, node)))]
    /\ UNCHANGED <<graph, chan, wr, flowVars, restVars>>

\* reconstruct: the top of the loop over the paths, up to the wait for the
\* acknowledgements; after the last path, initialize readies the node
PlanPath ==
    /\ plan.pc = "path"
    /\ LET node == topo_list(graph)[plan.i]
       IN  IF plan.paths = <<>>
           THEN /\ plan' = [plan EXCEPT !.pc = "ready"]
                /\ dom' = [dom EXCEPT !.inbox =
                              Send(@, DomainOf(graph, node), Ready(node, <<>>))]
                /\ chan' = chan
           ELSE LET path == Reverse(Head(plan.paths))
                    tag == Tag(plan.tagGen)
                    segments == Segments(graph, path, <<>>)
                IN  /\ plan' = [plan EXCEPT
                                  !.pc = IF FirstSeen(segments) <= Len(segments)
                                         THEN "panic" ELSE "acks",
                                  !.tag = tag,
                                  !.segments = segments,
                                  !.tagGen = fetch_add(@)]
                    /\ dom' = [dom EXCEPT
                                  !.inbox = SendAll(@, SetupPackets(segments, tag)),
                                  !.tags = InsertTags(@, segments, 1, tag)]
                    /\ chan' = [chan EXCEPT !.wait = 0, !.done = FALSE]
    /\ UNCHANGED <<graph, wr, flowVars, restVars>>

\* PlanStart that does not wait for the acknowledgements
PlanStart_NoWait ==
    /\ plan.pc = "acks"
    /\ chan' = chan
    /\ dom' = [dom EXCEPT !.inbox =
                  Send(@, plan.segments[1].domain,
                       StartReplay(plan.tag, plan.segments[1].nodes[1]))]
    /\ plan' = [plan EXCEPT !.pc = "done"]
    /\ UNCHANGED <<graph, wr, flowVars, restVars>>

\* reconstruct: every segment has acknowledged; tell the root domain to start
PlanStart ==
    /\ plan.pc = "acks"
    /\ chan.wait >= Len(plan.segments)
    /\ chan' = [chan EXCEPT !.wait = @ - Len(plan.segments)]
    /\ dom' = [dom EXCEPT !.inbox =
                  Send(@, plan.segments[1].domain,
                       StartReplay(plan.tag, plan.segments[1].nodes[1]))]
    /\ plan' = [plan EXCEPT !.pc = "done"]
    /\ UNCHANGED <<graph, wr, flowVars, restVars>>

\* PlanDone that does not wait for done
PlanDone_NoDone ==
    /\ plan.pc = "done"
    /\ chan' = [chan EXCEPT !.done = FALSE]
    /\ plan' = [plan EXCEPT !.pc = "path", !.paths = Tail(@)]
    /\ UNCHANGED <<graph, dom, wr, flowVars, restVars>>

\* reconstruct: done_rx.recv() returns; on to the next path
PlanDone ==
    /\ plan.pc = "done"
    /\ chan.done
    /\ chan' = [chan EXCEPT !.done = FALSE]
    /\ plan' = [plan EXCEPT !.pc = "path", !.paths = Tail(@)]
    /\ UNCHANGED <<graph, dom, wr, flowVars, restVars>>

\* PlanReadied that does not wait for the acknowledgement
PlanReadied_NoAck ==
    /\ plan.pc = "ready"
    /\ chan' = [chan EXCEPT !.ack = FALSE]
    /\ plan' = [plan EXCEPT !.pc = "node", !.i = @ + 1]
    /\ UNCHANGED <<graph, dom, wr, flowVars, restVars>>

\* initialize: ack_rx.recv() of ready returns; on to the next node
PlanReadied ==
    /\ plan.pc = "ready"
    /\ chan.ack
    /\ chan' = [chan EXCEPT !.ack = FALSE]
    /\ plan' = [plan EXCEPT !.pc = "node", !.i = @ + 1]
    /\ UNCHANGED <<graph, dom, wr, flowVars, restVars>>

\* initialize returns
PlanReturn ==
    /\ plan.pc = "node"
    /\ plan.i > Len(topo_list(graph))
    /\ plan' = [plan EXCEPT !.pc = "returned"]
    /\ UNCHANGED <<graph, chan, dom, wr, flowVars, restVars>>

\* the packet at the head of the inbox of domain d
Receives(d, type) == dom.inbox[d] # <<>> /\ Head(dom.inbox[d]).type = type
Taken(d) == [dom EXCEPT !.inbox[d] = Tail(@)]

\* Message: the update is dispatched to its node. The join reads its sources
\* through lstate and rstate, which follow the base nodes; a node like the
\* target that is there from the start processes every update of a base
HandleMessage ==
    /\ \E d \in DomainsOf(graph) :
          /\ Receives(d, "Message")
          /\ LET p == Head(dom.inbox[d])
                 base == p.node \in Bases(graph)
             IN  /\ dom' = Dispatch(graph, Taken(d), p.node, p.from, p.rs, p.ts)
                 /\ lstate' = IF base /\ JoinerIndex(p.node) = lnode
                              THEN Node_absorb(lstate, Stamp(lstate, p.rs, p.ts))
                              ELSE lstate
                 /\ rstate' = IF base /\ JoinerIndex(p.node) # lnode
                              THEN Node_absorb(rstate, Stamp(rstate, p.rs, p.ts))
                              ELSE rstate
                 /\ wr' = IF base
                          THEN [wr EXCEPT !.view = WriteHandle_add(@,
                                   NodeOnInput(graph, Target(graph), p.node, p.rs, p.ts),
                                   BaseKey)]
                          ELSE wr
    /\ UNCHANGED <<graph, plan, chan, ops, latestVars, lnode, joiner, jdata, jin, jout,
                   jq, jres, hist, restVars>>

\* Ready: the node is activated, with state if it is given indices; then ack
HandleReady ==
    /\ \E d \in DomainsOf(graph) :
          /\ Receives(d, "Ready")
          /\ LET p == Head(dom.inbox[d])
                 add == p.index # <<>> /\ p.node \notin DOMAIN dom.data
             IN  dom' = [Taken(d) EXCEPT
                           !.ready = @ \cup {p.node},
                           !.data = IF add THEN MapPut(@, p.node, EmptyStore) ELSE @,
                           !.epoch = IF add THEN MapPut(@, p.node, -1) ELSE @]
    /\ chan' = [chan EXCEPT !.ack = TRUE]
    /\ UNCHANGED <<graph, plan, wr, flowVars, restVars>>

\* PrepareState: empty state for the replay target
HandlePrepareState ==
    /\ \E d \in DomainsOf(graph) :
          /\ Receives(d, "PrepareState")
          /\ LET p == Head(dom.inbox[d])
             IN  dom' = [Taken(d) EXCEPT
                           !.data = MapPut(@, p.node, EmptyStore),
                           !.epoch = MapPut(@, p.node, -1)]
    /\ UNCHANGED <<graph, plan, chan, wr, flowVars, restVars>>

\* SetupReplayPath: the path is registered for the tag; then ack
HandleSetupReplayPath ==
    /\ \E d \in DomainsOf(graph) :
          /\ Receives(d, "SetupReplayPath")
          /\ LET p == Head(dom.inbox[d])
             IN  dom' = [Taken(d) EXCEPT
                           !.rpaths[d] = MapPut(@, p.tag, [path |-> p.path, done |-> p.done])]
    /\ chan' = [chan EXCEPT !.wait = @ + 1]
    /\ UNCHANGED <<graph, plan, wr, flowVars, restVars>>

\* StartReplay: the rows of the source state are replayed along the path
HandleStartReplay ==
    /\ \E d \in DomainsOf(graph) :
          /\ Receives(d, "StartReplay")
          /\ LET p == Head(dom.inbox[d])
                 S == Taken(d)
                 chunks == Chunks(StoreRows(S.data[p.node]), Clock(graph, S, p.node))
                 res == ReplayAll(graph, [dom |-> S, done |-> FALSE], d, p.node, p.tag,
                                  chunks)
             IN  /\ dom' = res.dom
                 /\ chan' = [chan EXCEPT !.wait = @ + 1, !.done = @ \/ res.done]
    /\ UNCHANGED <<graph, plan, wr, flowVars, restVars>>

\* ReplayChunk: a chunk from the previous domain of the path
HandleReplayChunk ==
    /\ \E d \in DomainsOf(graph) :
          /\ Receives(d, "ReplayChunk")
          /\ LET p == Head(dom.inbox[d])
                 path == dom.rpaths[d][p.tag].path
                 res == ReplayIn(graph, Taken(d), d, graph.nodes[Head(path)].parents[1],
                                 p.tag, [rs |-> p.rs, ts |-> p.ts, done |-> p.done])
             IN  /\ dom' = res.dom
                 /\ chan' = [chan EXCEPT !.done = @ \/ res.done]
    /\ UNCHANGED <<graph, plan, wr, flowVars, restVars>>

\* the writer sends one record to a base node; the update takes the next
\* timestamp
Write ==
    /\ wr.n < MaxWrites
    /\ \E b \in Bases(graph) : \E rs \in OneRecord(BaseRows(b)) :
          /\ Retractable(wr.ref[b], rs, BaseKey)
          /\ wr' = [wr EXCEPT !.n = @ + 1,
                              !.ref[b] = WriteHandle_add(@, rs, BaseKey)]
          /\ dom' = [dom EXCEPT !.inbox =
                        Send(@, DomainOf(graph, b), Message(Source, b, rs, wr.n))]
    /\ UNCHANGED <<graph, plan, chan, flowVars, restVars>>

\* a pass-through node below one base, or a join (inner or left) of two
InitReplay ==
    /\ ops = 0 /\ InitLatestVars /\ hist = <<>>
    /\ \E g \in Graphs, outer \in BOOLEAN :
          /\ outer => g = JoinTwo
          /\ JoinStart(0, outer)
          /\ MigStart(g)
    /\ RestIdle

NextReplay ==
    \/ PlanNode \/ PlanPath \/ PlanStart \/ PlanDone \/ PlanReadied \/ PlanReturn
    \/ HandleMessage \/ HandleReady \/ HandlePrepareState
    \/ HandleSetupReplayPath \/ HandleStartReplay \/ HandleReplayChunk
    \/ Write

SpecReplay == InitReplay /\ [][NextReplay]_vars

(***************************************************************************)
(* The buffered store with one writer and one concurrent reader            *)
(*                                                                         *)
(* The writer applies each update as add(rs), update_ts(ts), swap(); the   *)
(* reader calls find_and at any time. `wh` and `rd` also keep what the      *)
(* properties compare: the map before the last record, the map at the last *)
(* swap, and the map at every update_ts.                                   *)
(***************************************************************************)

MaxStoreOps == 2
MaxReads == 2
MaxTs == 1

FlowIdle == ops = 0 /\ InitLatestVars /\ JoinStart(0, FALSE) /\ hist = <<>>

\* one iteration of the loop of WriteHandle::add, up to its access of the map
Add ==
    /\ wh.pc \in {"idle", "add"}
    /\ wh.pc = "idle" => wh.ups < MaxStoreOps
    /\ wh.pc = "add" => wh.n < MaxBatch
    /\ \E rec \in Records :
          /\ store' = [store EXCEPT
                           !.data = WriteHandle_add1_access(@, rec, BaseKey)]
          /\ wh' = [wh EXCEPT
                        !.pc = IF NowEmpty(store.data, rec, BaseKey)
                               THEN "remove" ELSE "add",
                        !.n = IF wh.pc = "idle" THEN 1 ELSE @ + 1,
                        !.rec = rec, !.before = store.data]
    /\ UNCHANGED <<rd, flowVars, migVars, unionVars, pickVars, soupVars>>

\* self.data.remove(&r[self.key]) of a negative that left its key empty
Remove ==
    /\ wh.pc = "remove"
    /\ store' = [store EXCEPT
                     !.data = WriteHandle_add1(wh.before, wh.rec, BaseKey)]
    /\ wh' = [wh EXCEPT !.pc = "add"]
    /\ UNCHANGED <<rd, flowVars, migVars, unionVars, pickVars, soupVars>>

\* WriteHandle::update_ts, called once the batch is applied, with a timestamp
\* of tss
UpdateTs(tss) ==
    /\ wh.pc = "add"
    /\ \E ts \in tss :
          /\ store' = WriteHandle_update_ts(store, ts)
          /\ wh' = [wh EXCEPT
                        !.pc = "swap",
                        !.commits = @ \cup {[epoch |-> ts, data |-> store.data]}]
    /\ UNCHANGED <<rd, flowVars, migVars, unionVars, pickVars, soupVars>>

\* WriteHandle::swap, which ends the update
Swap ==
    /\ wh.pc = "swap"
    /\ store' = WriteHandle_swap(store)
    /\ wh' = [wh EXCEPT !.pc = "idle", !.ups = @ + 1, !.swapped = store.data]
    /\ UNCHANGED <<rd, flowVars, migVars, unionVars, pickVars, soupVars>>

\* find_and: the access of the map
FindGet ==
    /\ rd.pc = "idle" /\ rd.reads < MaxReads
    /\ \E k \in Keys :
          LET got == BufferedStore_get(store, k)
          IN  rd' = [rd EXCEPT
                        !.pc = IF got.ok THEN "load" ELSE "idle",
                        !.reads = @ + 1, !.key = k, !.ok = got.ok,
                        !.rows = got.rows,
                        !.expect = State_rows(wh.swapped, k)]
    /\ UNCHANGED <<store, wh, flowVars, migVars, unionVars, pickVars, soupVars>>

\* find_and: the load of the timestamp that completes Ok((rows, ts))
FindLoad ==
    /\ rd.pc = "load"
    /\ rd' = [rd EXCEPT !.pc = "idle", !.epoch = BufferedStore_load(store),
                        !.prev = rd.epoch]
    /\ UNCHANGED <<store, wh, flowVars, migVars, unionVars, pickVars, soupVars>>

InitStore == FlowIdle /\ MigIdle /\ RestIdle

\* the writer may pass any timestamp
NextStore ==
    Add \/ Remove \/ UpdateTs(0..MaxTs) \/ Swap \/ FindGet \/ FindLoad

SpecStore == InitStore /\ [][NextStore]_vars

\* the writer alone, passing the number of the update as its timestamp
NextWriter == Add \/ Remove \/ UpdateTs({wh.ups}) \/ Swap

SpecWriter == InitStore /\ [][NextWriter]_vars

(***************************************************************************)
(* Union::new over every emit list                                         *)
(***************************************************************************)

MaxEmit == 2

\* the lists of at most n column indices of ancestor a
EmitLists(a, n) == UNION {[1..k -> 0..(UnionCols[a + 1] - 1)] : k \in 0..n}

StoreIdle == StoreStart

New ==
    /\ un.status = "given"
    /\ un' = [un EXCEPT !.status = IF Union_new(un.emit) THEN "built" ELSE "panic"]
    /\ UNCHANGED <<flowVars, migVars, storeVars, pickVars, soupVars>>

InitUnionNew ==
    /\ FlowIdle /\ MigIdle /\ StoreIdle /\ pk = PickIdle /\ votes = <<>>
    /\ \E e0 \in EmitLists(0, MaxEmit), e1 \in EmitLists(1, MaxEmit) :
          un = [UnionIdle EXCEPT !.emit = <<e0, e1>>]

NextUnionNew == New

SpecUnionNew == InitUnionNew /\ [][NextUnionNew]_vars

(***************************************************************************)
(* Union::forward, for every union of two columns that Union::new builds   *)
(***************************************************************************)

MaxUnionOps == 2
MaxUnionBatch == 1

\* the number of columns of the union of the tests
UnionArity == 2

\* the unions Union::new returns
Unions ==
    {e \in [1..2 -> [1..UnionArity -> 0..2]] :
        /\ \A a \in UnionSrcs : \A i \in 1..UnionArity :
              e[a + 1][i] < UnionCols[a + 1]
        /\ Union_new(e)}

\* the updates ancestor a sends at timestamp ts
UnionUpdates(a, ts) ==
    {[i \in DOMAIN rs |-> Stamped(rs[i], ts)] :
        rs \in SeqsUpTo({Positive(r) : r \in UnionRows(a)}
                            \cup {Negative(r) : r \in UnionRows(a)}, MaxUnionBatch)}

Forward ==
    /\ un.status = "built" /\ un.calls < MaxUnionOps
    /\ \E from \in UnionSrcs, last \in BOOLEAN, o \in Orders(un.gather) :
       \E u \in {NoUpdate} \cup {SomeUpdate(rs) : rs \in UnionUpdates(from, un.calls)} :
          /\ u.some \/ last
          /\ LET res == Union_forward(un.emit, un.gather, o, u, from, last)
             IN  un' = [un EXCEPT
                           !.gather = res.gather, !.out = res.out,
                           !.calls = @ + 1,
                           !.in = [u |-> u, from |-> from, last |-> last,
                                   held |-> un.gather]]
    /\ UNCHANGED <<flowVars, migVars, storeVars, pickVars, soupVars>>

InitUnion ==
    /\ FlowIdle /\ MigIdle /\ StoreIdle /\ pk = PickIdle /\ votes = <<>>
    /\ \E e \in Unions : un = [UnionIdle EXCEPT !.emit = e, !.status = "built"]

NextUnion == Forward

SpecUnion == InitUnion /\ [][NextUnion]_vars

(***************************************************************************)
(* Union::forward called again and again on the union of the tests, one    *)
(* record at a time; un.since keeps the updates forward was given since    *)
(* the call before the last one that emitted                               *)
(***************************************************************************)

MaxGatherOps == 3

\* whether the last call of forward has drained gather
Emitted == un.calls > 0 /\ (un.in.last \/ ~un.in.u.some)

Gather ==
    /\ un.status = "built" /\ un.calls < MaxGatherOps
    /\ \E from \in UnionSrcs, last \in BOOLEAN, o \in Orders(un.gather) :
       \E u \in {NoUpdate} \cup {SomeUpdate(<<Stamped(Positive(r), un.calls)>>) :
                                    r \in UnionRows(from)} :
          /\ u.some \/ last
          /\ LET res == Union_forward(un.emit, un.gather, o, u, from, last)
             IN  un' = [un EXCEPT
                           !.gather = res.gather, !.out = res.out,
                           !.calls = @ + 1,
                           !.since = (IF Emitted THEN <<>> ELSE @)
                                         \o (IF u.some THEN <<[from |-> from, rs |-> u.rs]>>
                                             ELSE <<>>),
                           !.in = [u |-> u, from |-> from, last |-> last,
                                   held |-> un.gather]]
    /\ UNCHANGED <<flowVars, migVars, storeVars, pickVars, soupVars>>

InitGather ==
    /\ FlowIdle /\ MigIdle /\ StoreIdle /\ pk = PickIdle /\ votes = <<>>
    /\ un = [UnionIdle EXCEPT !.status = "built"]

NextGather == Gather

SpecGather == InitGather /\ [][NextGather]_vars

(***************************************************************************)
(* Specification SpecBuild: a Joiner built from a Builder over two sources *)
(* of two columns each, for every assignment of join groups to the columns *)
(* (group 0 is no group); a record arrives from either source and is       *)
(* forwarded through the join.                                             *)
(***************************************************************************)

MaxBuildOps == 2

\* the groups of a source of two columns: no group at all (as both sources of
\* the chairs view, hotcrp.rs), or group 1 on one of the columns
SourceGroups == {<<0, 0>>, <<1, 0>>, <<0, 1>>}

\* Joiner::join indexes this.against with the other source: the index panics
\* when From<Builder> left that source out
Joiner_join_fails(from) ==
    OtherNode(from) \notin DOMAIN joiner.join[from].against

\* a record of one source is absorbed by that source and forwarded to the join
ForwardRecord ==
    /\ ops < MaxBuildOps
    /\ \E from \in {0, 1} :
          \E rs \in OneRecord(IF from = lnode THEN Rows ELSE RRows) :
             LET state == NodeState(from)
                 u == Stamp(state, rs, ops)
             IN  /\ RetractableNode(state, rs)
                 /\ lstate' = IF from = lnode THEN Node_absorb(state, u) ELSE lstate
                 /\ rstate' = IF from = lnode THEN rstate ELSE Node_absorb(state, u)
                 /\ jin' = [from |-> from, rs |-> u, failed |-> Joiner_join_fails(from)]
                 /\ jout' = IF Joiner_join_fails(from) THEN <<>>
                            ELSE Joiner_forward(u, from)
    /\ ops' = ops + 1
    /\ UNCHANGED <<latestVars, lnode, joiner, jdata, jq, jres, hist, migVars, restVars>>

InitBuild ==
    /\ ops = 0 /\ InitLatestVars /\ hist = <<>>
    /\ MigIdle /\ RestIdle
    /\ lnode = 0
    /\ \E lgroups \in SourceGroups, rgroups \in SourceGroups, outer \in BOOLEAN :
          joiner = Joiner_from(Builder_new(<<<<0, 0>>, <<0, 1>>, <<1, 1>>>>,
                                           0, lgroups, 1, rgroups, outer))
    /\ lstate = <<>>
    /\ rstate = <<>>
    /\ jdata = EmptyStore
    /\ jin = [from |-> 0, rs |-> <<>>, failed |-> FALSE]
    /\ jout = <<>>
    /\ jq = NoQuery
    /\ jres = NotAsked

NextBuild == ForwardRecord

SpecBuild == InitBuild /\ [][NextBuild]_vars



(***************************************************************************)
(* Properties of the join                                                  *)
(***************************************************************************)

\* the join is a left join: rows of B without a match in R are kept
IsLeftJoin == joiner.join[lnode].against[OtherNode(lnode)].outer

\* the rows of the other source that a record arriving from `from` joins with
\* (both sources carry the join group in column 0)
Matches(rec, from) ==
    SelectSeq(NodeState(OtherNode(from)), LAMBDA e : e.r[1] = rec.r[1])

\* the output row of a row b of B and a row r of R: (b.0, b.1, r.1)
PairRow(b, r) == <<b[1], b[2], r[2]>>

HasNone(row) == \E i \in DOMAIN row : row[i] = None

\* the rows forward owes to a record that arrived from `from`, one per match
MatchedRows(rec, from) ==
    LET m == Matches(rec, from)
    IN  [k \in DOMAIN m |->
            [pos |-> rec.pos,
             r |-> IF from = lnode THEN PairRow(rec.r, m[k].r) ELSE PairRow(m[k].r, rec.r),
             ts |-> Max(rec.ts, m[k].ts)]]

\* the zero rows a left join owes to a record: one for a record of B without
\* match in R, none otherwise
ZeroRows(rec, from) ==
    IF from = lnode /\ Matches(rec, from) = <<>>
    THEN <<[pos |-> rec.pos, r |-> <<rec.r[1], rec.r[2], None>>, ts |-> rec.ts]>>
    ELSE <<>>

\* the join of the two sources' current contents: for every row of B, its
\* pairs with the rows of R of the same join column and, in a left join, a zero
\* row when there is none
JoinOfSources ==
    Flatten([i \in DOMAIN lstate |->
        LET m == SelectSeq(rstate, LAMBDA e : e.r[1] = lstate[i].r[1])
        IN  IF m = <<>>
            THEN IF IsLeftJoin
                 THEN <<<<lstate[i].r[1], lstate[i].r[2], None>>>>
                 ELSE <<>>
            ELSE [k \in DOMAIN m |-> PairRow(lstate[i].r, m[k].r)]])

\* C2: the store that accumulates what forward emits holds the join of the two
\* sources' current contents (a left join too: no zero row remains for a row
\* of B that has a match in R).
C2_JoinMaterialized ==
    StoreBag(jdata) = SeqToBag(JoinOfSources)

\* C4: forward emits, for the records of its input, exactly one row per row of
\* the other source with the same join column, woven as the emit list says
\* (the same row whichever source the record came from), with the record's sign
\* and the timestamp max(record, matched row); an inner join emits nothing for
\* records without a match.
C4_ForwardMatches ==
    /\ SeqToBag(SelectSeq(jout, LAMBDA o : ~HasNone(o.r)))
         = SeqToBag(Flatten([i \in DOMAIN jin.rs |-> MatchedRows(jin.rs[i], jin.from)]))
    /\ (~IsLeftJoin /\ \A i \in DOMAIN jin.rs : Matches(jin.rs[i], jin.from) = <<>>)
          => jout = <<>>

\* a retraction arriving from B that revokes two rows, the timestamp of one of
\* them being that of the matched row of R and not that of the record
C4_Witness ==
    /\ jin.from = lnode
    /\ Len(jin.rs) = 1
    /\ Len(jout) = 2
    /\ \A k \in DOMAIN jout : ~jout[k].pos /\ ~HasNone(jout[k].r)
    /\ \E k \in DOMAIN jout : jout[k].ts > jin.rs[1].ts

\* C5: in a left join, a record of B (the from side) without match in R emits
\* exactly one row, with the record's sign and timestamp, the columns of B and
\* None for the column of R; a record of R without match in B emits no row.
C5_LeftJoinZeroRow ==
    IsLeftJoin =>
        /\ SeqToBag(SelectSeq(jout, LAMBDA o : HasNone(o.r)))
             = SeqToBag(Flatten([i \in DOMAIN jin.rs |-> ZeroRows(jin.rs[i], jin.from)]))
        /\ (\A i \in DOMAIN jin.rs : Matches(jin.rs[i], jin.from) = <<>>)
              => Len(jout) = IF jin.from = lnode THEN Len(jin.rs) ELSE 0

\* a retraction of a row of B without match, while R holds rows of another key
C5_Witness ==
    /\ IsLeftJoin
    /\ jin.from = lnode
    /\ rstate # <<>>
    /\ Len(jout) = 1
    /\ ~jout[1].pos
    /\ jout[1].r[3] = None


\* C6: a point query on an inner join returns exactly the rows of the join of
\* the two sources' current contents that satisfy every condition of the query,
\* whichever source emits the condition's column; without conditions, the whole
\* join.
C6_InnerQuery ==
    (jres.done /\ ~IsLeftJoin) =>
        SeqToBag(RowsOf(jres.rows))
            = SeqToBag(SelectSeq(JoinOfSources, LAMBDA r : Query_feeds(jq, r)))

\* a query with a condition on a column of either source that keeps some rows
\* of the join and drops others
C6_Witness ==
    /\ jres.done
    /\ ~IsLeftJoin
    /\ Len(jq) = 2
    /\ jres.rows # <<>>
    /\ Len(jres.rows) < Len(JoinOfSources)

\* C7: a point query without conditions on a left join returns the matched rows
\* and one zero row for every row of B without match in R, whichever node
\* index each source has.
C7_LeftQuery ==
    (jres.done /\ IsLeftJoin /\ jq = NoQuery) =>
        SeqToBag(RowsOf(jres.rows)) = SeqToBag(JoinOfSources)

\* an insertion followed by the retraction of the same record, as two updates
\* of B or as one batch: the stores found before the insertion
RoundTrips(e) ==
    \/ /\ hist # <<>>
       /\ e = hist[Len(hist)]
       /\ e.side = "B"
       /\ \E r \in Rows : e.rs = <<Positive(r), Negative(r)>>
    \/ /\ Len(hist) = 2
       /\ e = hist[1]
       /\ e.side = "B" /\ hist[2].side = "B"
       /\ \E r \in Rows : e.rs = <<Positive(r)>> /\ hist[2].rs = <<Negative(r)>>

KeyOf(rec) == rec.r[LatestKey + 1]

\* the positions of the batch lin that hold a positive record of key k
PositivesOf(k) == {i \in DOMAIN lin : lin[i].pos /\ KeyOf(lin[i]) = k}

C9_RejectsStandaloneNegative ==
    (\E i \in DOMAIN lin : ~lin[i].pos /\ PositivesOf(KeyOf(lin[i])) = {})
        => lpanic

\* C10: when a batch holds two or more positives of one key, the state holds,
\* once the output is applied, exactly one row for the key: the last of them.
C10_LastSurvives ==
    \A k \in Keys :
        Cardinality(PositivesOf(k)) >= 2 =>
            State_lookup(ldata, k) =
                <<lin[CHOOSE i \in PositivesOf(k) : \A j \in PositivesOf(k) : j <= i].r>>

(***************************************************************************)
(* Properties of the migration                                             *)
(***************************************************************************)

\* initialize has returned and no packet is left in any inbox
Migrated == plan.pc = "returned"
Quiet == \A d \in DomainsOf(graph) : dom.inbox[d] = <<>>

\* C1: once the migration has returned and the writes issued so far have
\* been processed, the new node that holds state has exactly the tuples it
\* would have had it been present from the start and processed the same
\* writes, also when writes were issued while the replay was in progress
C1_ReplayEquivalent ==
    (Migrated /\ Quiet) =>
        /\ Target(graph) \in DOMAIN dom.data
        /\ StoreBag(dom.data[Target(graph)]) = StoreBag(wr.view)

(***************************************************************************)
(* Union::query over ancestors holding rows                                *)
(***************************************************************************)

MaxSrcRows == 2

\* the states ancestor a can have: at most MaxSrcRows rows, each with the
\* timestamp of its insertion
UnionStates(a) ==
    {[i \in DOMAIN rows |-> [r |-> rows[i], ts |-> i - 1]] :
        rows \in {<<>>} \cup SeqsUpTo(UnionRows(a), MaxSrcRows)}

\* the values a condition compares a column of the union with
UnionVals == {"1", "2", "a", "b", "x", "skipped"}

\* the queries of tests::it_queries: none, all rows, or one column = value
UnionQueries ==
    {NoUnionQuery, SomeQuery(<<>>)}
        \cup {SomeQuery(<<[column |-> c, value |-> v]>>) :
                 c \in 0..(UnionArity - 1), v \in UnionVals}

Query ==
    /\ un.status = "built"
    /\ \E q \in UnionQueries :
          un' = [un EXCEPT !.q = q, !.res = Union_query(un.emit, un.srcs, q)]
    /\ UNCHANGED <<flowVars, migVars, storeVars, pickVars, soupVars>>

InitUnionQuery ==
    /\ FlowIdle /\ MigIdle /\ StoreIdle /\ pk = PickIdle /\ votes = <<>>
    /\ \E e \in Unions, s0 \in UnionStates(0), s1 \in UnionStates(1) :
          un = [UnionIdle EXCEPT !.emit = e, !.status = "built", !.srcs = <<s0, s1>>]

NextUnionQuery == Query

SpecUnionQuery == InitUnionQuery /\ [][NextUnionQuery]_vars

(***************************************************************************)
(* Specification SpecPlan: initialize over migrations that add several     *)
(* nodes at once, some of them below new base nodes, which are known to be *)
(* empty.  Nothing is written while the migration runs.                    *)
(***************************************************************************)

\* a new base node, a new node without state below it and a new reader
NewTree ==
    [nodes |-> (0 :> GraphNode("source", 0, <<>>))
                 @@ (1 :> GraphNode("base", 0, <<0>>))
                 @@ (2 :> GraphNode("union", 0, <<1>>))
                 @@ (3 :> GraphNode("reader", 0, <<2>>)),
     new |-> {1, 2, 3},
     materialize |-> (1 :> Indexed)]

\* an old base node and a new one, a new materialized join of the two with
\* the old base node as its left or right side, and a new reader behind a new
\* node without state
Mixed(left) ==
    [nodes |-> (0 :> GraphNode("source", 0, <<>>))
                 @@ (1 :> GraphNode("base", 0, <<0>>))
                 @@ (2 :> GraphNode("base", 0, <<0>>))
                 @@ (3 :> GraphNode("join", 0, <<left, 3 - left>>))
                 @@ (4 :> GraphNode("union", 0, <<3>>))
                 @@ (5 :> GraphNode("reader", 0, <<4>>)),
     new |-> {2, 3, 4, 5},
     materialize |-> (1 :> Indexed) @@ (2 :> Indexed) @@ (3 :> Indexed)]

\* a new materialized union of two base nodes, the second one old or new
UnionTwo(new) ==
    [nodes |-> (0 :> GraphNode("source", 0, <<>>))
                 @@ (1 :> GraphNode("base", 0, <<0>>))
                 @@ (2 :> GraphNode("base", 0, <<0>>))
                 @@ (3 :> GraphNode("union", 0, <<1, 2>>)),
     new |-> new,
     materialize |-> (1 :> Indexed) @@ (2 :> Indexed) @@ (3 :> Indexed)]

\* two old base nodes and a new one; a new join without state of the new
\* base node and an old one, a new union without state of the join and the
\* other old base node, and a new reader
JoinUnderUnion(left) ==
    [nodes |-> (0 :> GraphNode("source", 0, <<>>))
                 @@ (1 :> GraphNode("base", 0, <<0>>))
                 @@ (2 :> GraphNode("base", 0, <<0>>))
                 @@ (3 :> GraphNode("base", 0, <<0>>))
                 @@ (4 :> GraphNode("join", 0, <<left, 4 - left>>))
                 @@ (5 :> GraphNode("union", 0, <<4, 2>>))
                 @@ (6 :> GraphNode("reader", 0, <<5>>)),
     new |-> {3, 4, 5, 6},
     materialize |-> (1 :> Indexed) @@ (2 :> Indexed) @@ (3 :> Indexed)]

PlanGraphs ==
    Graphs \cup {NewTree} \cup {Mixed(left) : left \in {1, 2}}
        \cup {UnionTwo(new) : new \in {{3}, {2, 3}}}
        \cup {JoinUnderUnion(left) : left \in {1, 3}}

InitPlan ==
    /\ ops = 0 /\ InitLatestVars /\ hist = <<>>
    /\ JoinStart(0, FALSE)
    /\ \E g \in PlanGraphs : MigStart(g)
    /\ RestIdle

NextPlan ==
    \/ PlanNode \/ PlanPath \/ PlanStart \/ PlanDone \/ PlanReadied \/ PlanReturn
    \/ HandleReady \/ HandlePrepareState
    \/ HandleSetupReplayPath \/ HandleStartReplay \/ HandleReplayChunk

SpecPlan == InitPlan /\ [][NextPlan]_vars

(***************************************************************************)
(* Specification SpecReconstruct: reconstruct over replay paths that cross *)
(* domains, in a process whose earlier migrations have used up tags.       *)
(* Nothing is written while the migration runs.                            *)
(***************************************************************************)

\* a base node with data and a new node at the end of a path that leaves the
\* domain of the base node and comes back to it
ChainBack(kind) ==
    [nodes |-> (0 :> GraphNode("source", 0, <<>>))
                 @@ (1 :> GraphNode("base", 0, <<0>>))
                 @@ (2 :> GraphNode("egress", 0, <<1>>))
                 @@ (3 :> GraphNode("ingress", 1, <<2>>))
                 @@ (4 :> GraphNode("union", 1, <<3>>))
                 @@ (5 :> GraphNode("egress", 1, <<4>>))
                 @@ (6 :> GraphNode("ingress", 0, <<5>>))
                 @@ (7 :> GraphNode(kind, 0, <<6>>)),
     new |-> {2, 3, 4, 5, 6, 7},
     materialize |-> IF kind = "union" THEN (1 :> Indexed) @@ (7 :> Indexed)
                     ELSE (1 :> Indexed)]

\* the same path through three domains
ChainThree ==
    [nodes |-> (0 :> GraphNode("source", 0, <<>>))
                 @@ (1 :> GraphNode("base", 0, <<0>>))
                 @@ (2 :> GraphNode("egress", 0, <<1>>))
                 @@ (3 :> GraphNode("ingress", 1, <<2>>))
                 @@ (4 :> GraphNode("union", 1, <<3>>))
                 @@ (5 :> GraphNode("egress", 1, <<4>>))
                 @@ (6 :> GraphNode("ingress", 2, <<5>>))
                 @@ (7 :> GraphNode("reader", 2, <<6>>)),
     new |-> {2, 3, 4, 5, 6, 7},
     materialize |-> (1 :> Indexed)]

\* a base node with data and a new node below it in another domain, the
\* base node being the only node of the path in its domain
RootAlone(kind) ==
    [nodes |-> (0 :> GraphNode("source", 0, <<>>))
                 @@ (1 :> GraphNode("base", 0, <<0>>))
                 @@ (2 :> GraphNode(kind, 1, <<1>>)),
     new |-> {2},
     materialize |-> IF kind = "union" THEN (1 :> Indexed) @@ (2 :> Indexed)
                     ELSE (1 :> Indexed)]

\* a new materialized union, in a domain of its own, of two base nodes
UnionCross ==
    [nodes |-> (0 :> GraphNode("source", 0, <<>>))
                 @@ (1 :> GraphNode("base", 0, <<0>>))
                 @@ (2 :> GraphNode("base", 0, <<0>>))
                 @@ (3 :> GraphNode("egress", 0, <<1>>))
                 @@ (4 :> GraphNode("egress", 0, <<2>>))
                 @@ (5 :> GraphNode("ingress", 1, <<3>>))
                 @@ (6 :> GraphNode("ingress", 1, <<4>>))
                 @@ (7 :> GraphNode("union", 1, <<5, 6>>)),
     new |-> {3, 4, 5, 6, 7},
     materialize |-> (1 :> Indexed) @@ (2 :> Indexed) @@ (7 :> Indexed)]

ReconstructGraphs ==
    {ChainCross(kind) : kind \in {"reader", "union"}}
        \cup {ChainBack(kind) : kind \in {"reader", "union"}}
        \cup {RootAlone(kind) : kind \in {"reader", "union"}}
        \cup {ChainThree, UnionCross, UnionTwo({3})}

\* what TAG_GENERATOR may hold when the migration starts: nothing, or a
\* count of earlier replays that is one short of filling 16, 32 or 64 bits
TagStarts ==
    {ZeroWord, <<0, 0, 0, Limb - 1>>, <<0, 0, Limb - 1, Limb - 1>>,
     <<Limb - 1, Limb - 1, Limb - 1, Limb - 1>>}

InitReconstruct ==
    /\ ops = 0 /\ InitLatestVars /\ hist = <<>>
    /\ JoinStart(0, FALSE)
    /\ \E g \in ReconstructGraphs : \E word \in TagStarts : MigStartAt(g, word)
    /\ RestIdle

SpecReconstruct == InitReconstruct /\ [][NextPlan]_vars

(***************************************************************************)
(* Specification SpecSoup: the article/vote/votecount/awvc graph of        *)
(* benchmarks/targets/soup.rs.  article is the from source of the join     *)
(* (lstate), votecount the other one (rstate), awvc its materialized       *)
(* output (jdata); every put is processed through the graph before the     *)
(* next one.                                                               *)
(***************************************************************************)

MaxSoupOps == 4

Users == {"u7", "u8"}

\* a count as the column value votecount holds
Count(n) == <<"0", "1", "2", "3", "4", "5", "6", "7">>[n + 1]

\* the count a column value stands for
CountOf(c) == CHOOSE n \in 0..7 : Count(n) = c

\* Aggregation::COUNT.over(vote, 0, &[1]) on a positive vote for id: the old
\* row of the id, if any, is retracted and the row with the new count emitted
Aggregation_count(state, id) ==
    LET at == {i \in DOMAIN state : state[i].r[1] = id}
        old == state[CHOOSE i \in at : TRUE].r
    IN  IF at = {} THEN <<Positive(<<id, Count(1)>>)>>
        ELSE <<Negative(old), Positive(<<id, Count(CountOf(old[2]) + 1)>>)>>

\* Putter::article(id, title)
PutArticle ==
    /\ ops < MaxSoupOps
    /\ \E r \in Rows :
          LET rs == Stamp(lstate, <<Positive(r)>>, ops)
          IN  /\ lstate' = Node_absorb(lstate, rs)
              /\ JoinProcess(rs, lnode)
    /\ ops' = ops + 1
    /\ UNCHANGED <<latestVars, lnode, joiner, rstate, jq, jres, hist, votes,
                   migVars, storeVars, unionVars, pickVars>>

\* Putter::vote(user, id)
PutVote ==
    /\ ops < MaxSoupOps
    /\ \E u \in Users, id \in Keys :
          LET rs == Stamp(rstate, Aggregation_count(rstate, id), ops)
          IN  /\ votes' = Append(votes, <<u, id>>)
              /\ rstate' = Node_absorb(rstate, rs)
              /\ JoinProcess(rs, OtherNode(lnode))
    /\ ops' = ops + 1
    /\ UNCHANGED <<latestVars, lnode, joiner, lstate, jq, jres, hist,
                   migVars, storeVars, unionVars, pickVars>>

InitSoup ==
    /\ ops = 0 /\ InitLatestVars /\ JoinStart(0, FALSE) /\ hist = <<>>
    /\ MigIdle /\ RestIdle

NextSoup == PutArticle \/ PutVote

SpecSoup == InitSoup /\ [][NextSoup]_vars

(***************************************************************************)
(* pick over every small domain graph and every node order: the domain is  *)
(* built node by node below an ingress node, and pick is called on it      *)
(***************************************************************************)

MaxPickNodes == 4

\* the kinds of a node with one parent and of a node with two
OneParentKinds == {"latest", "filter", "union"}
TwoParentKinds == {"join"}

\* the sets of parents a node c of kind k can have
ParentSets(c, k) ==
    {ps \in SUBSET (1..(c - 1)) :
        Cardinality(ps) = IF k \in TwoParentKinds THEN 2 ELSE 1}

\* g with one more node c of kind k below the parents ps, the edges from ms
\* being materialized
AddNode(g, c, k, ps, ms) ==
    [kind |-> Append(g.kind, k), parents |-> Append(g.parents, ps),
     mat |-> g.mat \cup {<<p, c>> : p \in ms}]

\* the domain graph of one node of kind top
TopNode(top) == [kind |-> <<top>>, parents |-> <<{}>>, mat |-> {}]

\* the graphs with one more node than g, of any kind and below any nodes of
\* g.  pick reads the weights of the edges out of a node only through any(),
\* so a materialized edge to the first child of a node stands for every set
\* of them.
Extensions(g) ==
    LET n == Len(g.kind) + 1
    IN  UNION {UNION {{AddNode(g, n, k, ps, ms) :
                          ms \in SUBSET {p \in ps : PChildren(g, p) = {}}} :
                      ps \in ParentSets(n, k)} :
                  k \in OneParentKinds \cup TwoParentKinds}

\* a node is added to the domain, up to max nodes
Grow(max) ==
    /\ ~pk.picked
    /\ Len(pk.g.kind) < max
    /\ \E g \in Extensions(pk.g) : pk' = [pk EXCEPT !.g = g]
    /\ UNCHANGED <<flowVars, migVars, storeVars, unionVars, soupVars>>

\* the sequences that hold every element of S once
RECURSIVE Orderings(_)
Orderings(S) ==
    IF S = {} THEN {<<>>}
    ELSE UNION {{<<x>> \o t : t \in Orderings(S \ {x})} : x \in S}

\* the elements of a set of numbers, smallest first
RECURSIVE Ascending(_)
Ascending(S) ==
    IF S = {} THEN <<>>
    ELSE LET x == CHOOSE y \in S : \A z \in S : y <= z
         IN  <<x>> \o Ascending(S \ {x})

\* the orders in which the nodes of g can be given.  The loop over the
\* querying nodes skips every node that does not query and the hoisting loop
\* every node that cannot be queried through, so an order stands for all the
\* orders that list the querying nodes alike and the query-through nodes alike:
\* the other nodes come first here, then the querying ones in any order, then
\* the query-through ones in any order.
NodeOrders(g) ==
    LET asks == {n \in PNodes(g) :
                    IsInternal(g, n) /\ (will_query(g, n, TRUE) \/ will_query(g, n, FALSE))}
        through == {n \in PNodes(g) : IsInternal(g, n) /\ can_query_through(g, n)}
    IN  IF asks \cap through # {}
        THEN Orderings(PNodes(g))
        ELSE {Ascending(PNodes(g) \ (asks \cup through)) \o a \o t :
                 a \in Orderings(asks), t \in Orderings(through)}

\* pick is called with the nodes of the domain in any order
Pick ==
    /\ ~pk.picked
    /\ Len(pk.g.kind) >= 2
    /\ \E o \in NodeOrders(pk.g) :
          LET res == pick(pk.g, o)
          IN  pk' = [pk EXCEPT !.picked = TRUE,
                              !.materialize = res.materialize,
                              !.inquisitive = res.inquisitive]
    /\ UNCHANGED <<flowVars, migVars, storeVars, unionVars, soupVars>>

InitPick ==
    /\ FlowIdle /\ MigIdle /\ StoreIdle /\ un = UnionIdle /\ votes = <<>>
    /\ pk = [PickIdle EXCEPT !.g = TopNode("ingress")]

NextPick == Grow(MaxPickNodes) \/ Pick

SpecPick == InitPick /\ [][NextPick]_vars

(***************************************************************************)
(* index over what pick returned, the top node being an ingress or a base  *)
(***************************************************************************)

MaxIndexNodes == 3

Index ==
    /\ pk.picked /\ ~pk.indexed
    /\ LET res == index(pk.g, pk.materialize)
       IN  pk' = [pk EXCEPT !.indexed = TRUE, !.panic = res.panic,
                           !.index = IF res.panic THEN <<>> ELSE res.index]
    /\ UNCHANGED <<flowVars, migVars, storeVars, unionVars, soupVars>>

InitIndex ==
    /\ FlowIdle /\ MigIdle /\ StoreIdle /\ un = UnionIdle /\ votes = <<>>
    /\ \E top \in {"ingress", "base"} : pk = [PickIdle EXCEPT !.g = TopNode(top)]

NextIndex == Grow(MaxIndexNodes) \/ Pick \/ Index

SpecIndex == InitIndex /\ [][NextIndex]_vars

(***************************************************************************)
(* Properties of the buffered store                                        *)
(***************************************************************************)

\* the record the writer applied last, its row, and the number of copies of a
\* row in a store
Applied == wh.rec # NoRecord
AppliedRow == wh.rec.r
Copies(d, r) == Cardinality({i \in DOMAIN StoreRows(d) : StoreRows(d)[i] = r})

\* the last record was a negative whose row the store did not hold
UnmatchedNegative ==
    Applied /\ ~wh.rec.pos /\ Copies(wh.before, AppliedRow) = 0

\* C15: WriteHandle.add inserts a positive record under the value of its key
\* column; for a negative record of a row the store holds it removes exactly
\* one tuple equal to it in every field; every other tuple (other copies,
\* other tuples of the key, other keys) stays in the store.
C15_AddFrame ==
    Applied =>
        /\ wh.rec.pos =>
              /\ StoreBag(store.data) = StoreBag(wh.before) (+) SetToBag({AppliedRow})
              /\ \E i \in DOMAIN State_rows(store.data, AppliedRow[BaseKey + 1]) :
                    State_rows(store.data, AppliedRow[BaseKey + 1])[i] = AppliedRow
        /\ (~wh.rec.pos /\ ~UnmatchedNegative) =>
              StoreBag(store.data) = StoreBag(wh.before) (-) SetToBag({AppliedRow})
        /\ \A k \in DOMAIN store.data : \A i \in DOMAIN store.data[k] :
              store.data[k][i][BaseKey + 1] = k

\* a negative removed one of two copies of a row while another row was stored
C15_Witness ==
    /\ Applied /\ ~wh.rec.pos
    /\ Copies(wh.before, AppliedRow) = 2
    /\ Copies(store.data, AppliedRow) = 1
    /\ Len(StoreRows(store.data)) = 2

\* C16: applying a negative record for which the store holds no matching
\* tuple (no entry for the key, or no tuple equal in every field) makes the
\* store panic instead of accepting the update.
C16_UnmatchedNegativePanics == UnmatchedNegative => store.panicked

\* find_and has been called and has returned
HasRead == rd.reads > 0 /\ rd.pc = "idle"

\* C17: the epoch find_and returns never decreases over the successive reads
\* of a reader, whatever timestamps the writer passes to update_ts.
C17_EpochMonotone == rd.epoch >= rd.prev

\* C18: a concurrent reader sees consistent snapshots only: find_and returns
\* the rows the key had at the writer's last swap, so records given to add
\* are not visible before swap and no part of a batch is seen alone.
C18_SnapshotReads == rd.reads > 0 => rd.rows = rd.expect

\* C19: every (rows, epoch) pair find_and returns describes one committed
\* state: the rows are those the key held when update_ts set that epoch,
\* under every interleaving of the read with add followed by update_ts.
C19_CommittedPair ==
    (HasRead /\ rd.ok) =>
        \E c \in wh.commits :
            c.epoch = rd.epoch /\ State_rows(c.data, rd.key) = rd.rows

(***************************************************************************)
(* Properties of the union                                                 *)
(***************************************************************************)

\* a record of ancestor a projected to the union's schema
ProjectedThrough(e, rec) ==
    [pos |-> rec.pos, r |-> [c \in DOMAIN e |-> rec.r[e[c] + 1]], ts |-> rec.ts]

ProjectedUpdate(a, rs) ==
    [i \in DOMAIN rs |-> ProjectedThrough(un.emit[a + 1], rs[i])]

\* the projection of the updates gather held when forward was called
ProjectedHeld ==
    (IF 0 \in DOMAIN un.in.held THEN ProjectedUpdate(0, un.in.held[0]) ELSE <<>>)
        \o (IF 1 \in DOMAIN un.in.held THEN ProjectedUpdate(1, un.in.held[1]) ELSE <<>>)

\* the projection of the update forward was called with
ProjectedInput ==
    IF un.in.u.some THEN ProjectedUpdate(un.in.from, un.in.u.rs) ELSE <<>>

\* forward has been called, and drain with it
Forwarded == un.calls > 0
Drained == Forwarded /\ (un.in.last \/ ~un.in.u.some)

\* C11: for every input record from ancestor a that drain is given, the
\* union emits exactly one record, made of the input's columns listed in
\* emit[a], in that order, with the input's sign and timestamp.
C11_UnionProjects ==
    Drained =>
        /\ Len(un.out.rs) = Len(ProjectedHeld) + Len(ProjectedInput)
        /\ SeqToBag(un.out.rs) = SeqToBag(ProjectedHeld \o ProjectedInput)

\* drain emitted a negative of ancestor 1, two of whose three columns the
\* union keeps, together with a record of ancestor 0
C11_Witness ==
    /\ Drained /\ un.out.kind = "Done"
    /\ un.emit[2] = <<0, 2>>
    /\ 0 \in DOMAIN un.in.held
    /\ un.in.from = 1 /\ un.in.u.some
    /\ \E i \in DOMAIN un.out.rs :
          ~un.out.rs[i].pos /\ un.out.rs[i].r = <<"1", "x">>

StrictlyIncreasing(e) == \A i \in 2..Len(e) : e[i - 1] < e[i]

\* C13: Union::new rejects every emit list that is not strictly increasing,
\* be it reordered or repeating a column index, and accepts every strictly
\* increasing list.
C13_NewChecksEmit ==
    un.status # "given" =>
        (un.status = "built" <=> \A a \in DOMAIN un.emit : StrictlyIncreasing(un.emit[a]))

\* C14: every call of forward with a non-empty update produces an output
\* update that holds the projection of exactly that update's records.
C14_OneOutputPerInput ==
    (Forwarded /\ un.in.u.some) =>
        un.out = [kind |-> "Done", rs |-> ProjectedInput]

\* C14, amended: a call of forward with last = false produces nothing, it
\* keeps the update in gather in place of the one held for that ancestor; a
\* call with last = true empties gather and produces one update holding the
\* projection of the updates gathered and of its own.
C14_GatherThenEmit ==
    Forwarded =>
        /\ (un.in.u.some /\ ~un.in.last) =>
              /\ un.out.kind = "Accepted"
              /\ un.gather = MapPut(un.in.held, un.in.from, un.in.u.rs)
        /\ Drained =>
              /\ un.gather = EmptyStore
              /\ SeqToBag(un.out.rs) = SeqToBag(ProjectedHeld \o ProjectedInput)
              /\ un.out.kind = IF ProjectedHeld \o ProjectedInput = <<>>
                               THEN "Skip" ELSE "Done"

\* a last call that emitted the update gathered from the other ancestor
\* together with its own
C14_Witness ==
    /\ Drained /\ un.in.u.some
    /\ DOMAIN un.in.held = {1 - un.in.from}
    /\ Len(un.out.rs) = Len(un.in.u.rs) + Len(un.in.held[1 - un.in.from])

\* the rows of ancestor a projected through emit[a]
ProjectedRows(a) ==
    [i \in DOMAIN un.srcs[a + 1] |->
        [c \in DOMAIN un.emit[a + 1] |-> un.srcs[a + 1][i].r[un.emit[a + 1][c] + 1]]]

\* the projected rows of both ancestors that satisfy the conditions of the
\* query asked last, read over the columns of the union
UnionOfSources ==
    SelectSeq(ProjectedRows(0) \o ProjectedRows(1),
              LAMBDA r : Query_feeds(un.q.having, r))

\* C12: a point query on a union returns the multiset union, over the
\* ancestors a, of a's rows projected through emit[a] that satisfy every
\* condition of the query read over the union's columns; without conditions
\* it returns all projected rows of all ancestors.
C12_UnionQuery ==
    un.res.done =>
        /\ ~un.res.panic
        /\ SeqToBag(un.res.rows) = SeqToBag(UnionOfSources)

(***************************************************************************)
(* The article/vote/votecount/awvc graph of benchmarks/targets/soup.rs     *)
(*                                                                         *)
(* awvc is JoinBuilder::new([(article,0), (article,1), (vc,1)])            *)
(* .from(article, [1,0]).join(vc, [1,0]): the inner join of the tests with *)
(* article as source 0 and votecount as source 1. An id is a key, a title  *)
(* a value of the left rows, and a count a value of the right rows.        *)
(***************************************************************************)

\* the graph make builds: awvc joins article, the from source, with votecount
SoupGraph == ~IsLeftJoin /\ lnode = 0

\* the count of no vote
ZeroVotes == "0"

\* no row
NoRow == <<>>

\* Getter::get(id): the first row awvc holds for the id, if any
Getter_get(awvc, id) ==
    LET rows == State_lookup(awvc, id)
    IN  IF rows # <<>> THEN rows[1] ELSE NoRow

\* the titles of the articles inserted with an id, and whether votecount
\* holds a count for the id (it does once a vote for the id exists)
Titles(id) == {lstate[i].r[2] : i \in {j \in DOMAIN lstate : lstate[j].r[1] = id}}
HasVotes(id) == \E i \in DOMAIN rstate : rstate[i].r[1] = id

\* C20: once article(id, title) has been inserted and no vote for id exists,
\* a query of awvc for the id returns the row (id, title, 0).
C20_ArticleWithoutVotes ==
    SoupGraph =>
        \A id \in Keys :
            (Titles(id) # {} /\ ~HasVotes(id)) =>
                \E title \in Titles(id) :
                    Getter_get(jdata, id) = <<id, title, ZeroVotes>>

\* the articles inserted with an id, and the number of votes for the id
Articles(id) == {i \in DOMAIN lstate : lstate[i].r[1] = id}
VotesFor(id) == Cardinality({i \in DOMAIN votes : votes[i][2] = id})

\* C21: after any sequence of article and vote insertions, a query of awvc for
\* the id of an inserted article with k >= 1 votes returns exactly one row
\* (id, title, k).
C21_ArticleWithVotes ==
    \A id \in Keys :
        (Cardinality(Articles(id)) = 1 /\ VotesFor(id) >= 1) =>
            \E i \in Articles(id) :
                State_lookup(jdata, id)
                    = <<<<id, lstate[i].r[2], Count(VotesFor(id))>>>>

\* an article inserted after the first vote for its id and before the last,
\* and read after the last
C21_Witness ==
    \E id \in Keys :
        /\ VotesFor(id) >= 2
        /\ \E i \in Articles(id) :
              /\ Articles(id) = {i}
              /\ lstate[i].ts > 0 /\ lstate[i].ts < ops - 1
              /\ votes[Len(votes)][2] = id
              /\ Getter_get(jdata, id) = <<id, lstate[i].r[2], Count(VotesFor(id))>>

(***************************************************************************)
(* Properties of pick                                                      *)
(***************************************************************************)

\* the internal nodes of the domain graph: pick was given every node
PInternal == {n \in PNodes(pk.g) : IsInternal(pk.g, n)}

\* n can be queried through and has an outgoing edge flagged materialized
Hoistable(n) == can_query_through(pk.g, n) /\ HasMaterializedEdge(pk.g, n)

\* C22: the set returned by pick holds every internal node that requests its
\* own state or has an outgoing edge flagged materialized, unless the node
\* can be queried through and has such an edge.
C22_RequestedState ==
    pk.picked =>
        \A n \in PInternal :
            (/\ should_materialize(pk.g, n) \/ HasMaterializedEdge(pk.g, n)
             /\ ~Hoistable(n))
                => n \in pk.materialize

\* a node without state of its own is in the set for its materialized edge,
\* and a query-through node with such an edge is not
C22_Witness ==
    /\ pk.picked
    /\ \E n \in PInternal :
          /\ ~should_materialize(pk.g, n) /\ ~can_query_through(pk.g, n)
          /\ ~will_query(pk.g, n, FALSE)
          /\ HasMaterializedEdge(pk.g, n) /\ n \in pk.materialize
    /\ \E n \in PInternal : Hoistable(n) /\ n \notin pk.materialize

\* the nodes reached from the nodes of front by walking to parents, and on
\* through the parents that can be queried through and hold no state in m
RECURSIVE ReachedThrough(_, _, _)
ReachedThrough(g, m, front) ==
    LET ps == UNION {PParents(g, n) : n \in front}
        on == {p \in ps : IsInternal(g, p) /\ can_query_through(g, p) /\ p \notin m}
    IN  IF ps = {} THEN {} ELSE ps \cup ReachedThrough(g, m, on)

\* the internal nodes that query their ancestors, given the state pick
\* decided they hold
Querying ==
    {n \in PInternal : will_query(pk.g, n, n \in pk.materialize)}

\* C23: in the set returned by pick, every internal ancestor that a querying
\* node reaches by walking backwards through unmaterialized query-through
\* nodes only, and that cannot itself be queried through, is materialized.
C23_QueriedAncestorsHaveState ==
    pk.picked =>
        \A n \in Querying :
            \A a \in ReachedThrough(pk.g, pk.materialize, {n}) :
                (IsInternal(pk.g, a) /\ ~can_query_through(pk.g, a))
                    => a \in pk.materialize

\* a querying node reaches, through a query-through parent without state, an
\* ancestor that holds state only because it is queried
C23_Witness ==
    /\ pk.picked
    /\ \E n \in Querying :
       \E f \in PParents(pk.g, n) :
       \E a \in PParents(pk.g, f) :
          /\ IsInternal(pk.g, f) /\ can_query_through(pk.g, f)
          /\ f \notin pk.materialize
          /\ IsInternal(pk.g, a) /\ ~can_query_through(pk.g, a)
          /\ ~should_materialize(pk.g, a) /\ ~HasMaterializedEdge(pk.g, a)
          /\ a \in pk.materialize

\* C24: the set returned by pick holds every ingress node that has a direct
\* child marked inquisitive.
C24_IngressOfInquisitive ==
    pk.picked =>
        \A n \in PNodes(pk.g) :
            (IsIngress(pk.g, n) /\ PChildren(pk.g, n) \cap pk.inquisitive # {})
                => n \in pk.materialize

\* the ingress node is in the set for a child that does not query itself but
\* lies on the backwards walk from a querying node
C24_Witness ==
    /\ pk.picked
    /\ \E n \in PNodes(pk.g) :
       \E c \in PChildren(pk.g, n) \cap pk.inquisitive :
          /\ IsIngress(pk.g, n) /\ n \in pk.materialize
          /\ can_query_through(pk.g, c) /\ c \notin Querying
          /\ PChildren(pk.g, n) \cap Querying = {}

\* C25: after hoisting, the set returned by pick holds no internal node that
\* can be queried through and has a materialized outgoing edge, and holds
\* every parent of each such node.
C25_Hoisted ==
    pk.picked =>
        \A n \in PInternal :
            Hoistable(n) =>
                /\ n \notin pk.materialize
                /\ PParents(pk.g, n) \subseteq pk.materialize

(***************************************************************************)
(* Properties of index                                                     *)
(***************************************************************************)

\* the column lists that the querying internal nodes of the domain ask to
\* have indexed on node v
Asked(v) ==
    {cols \in {<<0>>, <<1>>} :
        \E n \in PInternal :
            /\ will_query(pk.g, n, FALSE)
            /\ <<v, cols>> \in suggest_indexes(pk.g, n)}

\* C26: the map returned by index gives every materialized node with a
\* suggestion exactly the suggested column lists, a base without suggestion
\* the index on column 0, and leaves out the other materialized nodes; no
\* node of the map has an empty index list.
C26_IndexMap ==
    (pk.indexed /\ ~pk.panic) =>
        /\ DOMAIN pk.index \subseteq pk.materialize
        /\ \A n \in pk.materialize :
              IF Asked(n) # {}
              THEN n \in DOMAIN pk.index /\ pk.index[n] = Asked(n)
              ELSE IF is_base(pk.g, n)
              THEN n \in DOMAIN pk.index /\ pk.index[n] = {<<0>>}
              ELSE n \notin DOMAIN pk.index
        /\ \A n \in DOMAIN pk.index : pk.index[n] # {}

\* a base without suggestion, a node with a suggested column list and a
\* materialized node left out of the map
C26_Witness ==
    /\ pk.indexed /\ ~pk.panic
    /\ \E n \in pk.materialize : is_base(pk.g, n) /\ Asked(n) = {}
    /\ \E n \in pk.materialize : Asked(n) # {} /\ pk.index[n] = Asked(n)
    /\ \E n \in pk.materialize : n \notin DOMAIN pk.index

\* C27: index fails whenever a node suggests an index on a node of the
\* domain that is not materialized.
C27_UnplacedIndexFails ==
    (pk.indexed /\ \E v \in PNodes(pk.g) : v \notin pk.materialize /\ Asked(v) # {})
        => pk.panic

(***************************************************************************)
(* Properties of initialize and trace                                      *)
(***************************************************************************)

\* the new nodes, the node initialize is at, and the position of a new node
\* in the order initialize goes through them
NewNodes == graph.new \ {Source}
Current == topo_list(graph)[plan.i]
TopoPos(n) == CHOOSE i \in DOMAIN topo_list(graph) : topo_list(graph)[i] = n

\* the ancestors of node n
RECURSIVE Ancestors(_, _)
Ancestors(g, n) ==
    Parents(g, n) \cup UNION {Ancestors(g, p) : p \in Parents(g, n)}

\* the packets of the given types the domains S have not taken yet, as
\* <<domain, position>> pairs
InFlight(S, types) ==
    {x \in DomainsOf(graph) \X (1..8) :
        /\ x[2] <= Len(S.inbox[x[1]])
        /\ S.inbox[x[1]][x[2]].type \in types}

\* the number of Ready packets for node n among them
ReadyCount(S, n) ==
    Cardinality({x \in InFlight(S, {"Ready"}) : S.inbox[x[1]][x[2]].node = n})

\* a step of the migration: the Ready of a new node b is sent once, when
\* initialize is at b, with every new ancestor of b readied and acknowledged;
\* initialize moves on only with the acknowledgement and returns only after
\* the last one
C28_Step ==
    /\ \A b \in NewNodes :
          ReadyCount(dom', b) > ReadyCount(dom, b) =>
            /\ ReadyCount(dom, b) = 0 /\ ReadyCount(dom', b) = 1
            /\ plan.pc \in {"node", "path"} /\ plan'.pc = "ready"
            /\ plan.i <= Len(topo_list(graph)) /\ Current = b
            /\ \A a \in Ancestors(graph, b) \cap NewNodes :
                  /\ TopoPos(a) < plan.i
                  /\ ReadyCount(dom, a) = 0
                  /\ a \in dom.ready
    /\ plan.pc = "ready" =>
          /\ InFlight(dom', {"Ready"}) \subseteq InFlight(dom, {"Ready"})
          /\ ReadyCount(dom, Current) = IF chan.ack THEN 0 ELSE 1
    /\ plan'.i # plan.i =>
          /\ plan.pc = "ready" /\ chan.ack /\ plan'.i = plan.i + 1
          /\ InFlight(dom, {"Ready"}) = {}
    /\ plan'.pc = "returned" =>
          /\ plan.i = Len(topo_list(graph)) + 1
          /\ InFlight(dom, {"Ready"}) = {} /\ ~chan.ack
          /\ NewNodes \subseteq dom.ready

\* C28: initialize readies new nodes ancestors first: the Ready of b is sent
\* only after the acknowledgement of the Ready of each new ancestor of b;
\* every new node gets exactly one Ready, and initialize returns only after
\* every Ready was acknowledged.
C28_ReadyInOrder == [][C28_Step]_vars

\* initialize has returned from a migration in which a new node had a new
\* ancestor
C28_Witness ==
    /\ plan.pc = "returned"
    /\ \E b \in NewNodes : Ancestors(graph, b) \cap NewNodes # {}

\* whether initialize knows node n to be empty: n is new and so is
\* everything above it
RECURSIVE KnownEmpty(_)
KnownEmpty(n) ==
    /\ n \in graph.new
    /\ \A p \in Parents(graph, n) \ {Source} : KnownEmpty(p)

\* whether node n is to be filled by a replay
Replays(n) ==
    /\ \/ n \in DOMAIN graph.materialize /\ graph.materialize[n] # <<>>
       \/ graph.nodes[n].kind = "reader"
    /\ \E p \in Parents(graph, n) \ {Source} : ~KnownEmpty(p)

ReplayPackets == {"PrepareState", "SetupReplayPath", "StartReplay"}

\* a step of the migration: initialize decides at each node between the
\* replay and a single Ready with the node's index list, records the node as
\* empty when it is known to be, and the packets of the replay protocol are
\* only sent for a node that is to be filled by a replay
C29_Step ==
    /\ (plan.pc = "node" /\ plan'.pc # "returned" /\ plan' # plan) =>
          /\ plan'.pc = (IF Replays(Current) THEN "path" ELSE "ready")
          /\ ~Replays(Current) =>
                dom' = [dom EXCEPT !.inbox =
                           Send(@, DomainOf(graph, Current),
                                Ready(Current, index_on(graph, Current)))]
          /\ plan'.empty =
                plan.empty \cup (IF KnownEmpty(Current) THEN {Current} ELSE {})
    /\ (plan.pc # "node" \/ plan'.pc = "returned") => plan'.empty = plan.empty
    /\ Cardinality(InFlight(dom', ReplayPackets))
            > Cardinality(InFlight(dom, ReplayPackets)) =>
          /\ plan.i <= Len(topo_list(graph))
          /\ Replays(Current)

C30_TracePaths ==
    plan.pc \in {"path", "acks", "done"} =>
        \A k \in DOMAIN plan.paths :
            LET path == plan.paths[k]
            IN  /\ Len(path) >= 2
                /\ path[1] = Current
                /\ \A i \in 1..(Len(path) - 1) :
                      path[i + 1] \in Parents(graph, path[i])
                /\ Last(path) \in DOMAIN graph.materialize
                /\ \A i \in 2..(Len(path) - 1) :
                      path[i] \notin DOMAIN graph.materialize

\* a path through a node without state that ends at a materialized node
\* which has ancestors of its own
C30_Witness ==
    /\ plan.pc = "path"
    /\ \E k \in DOMAIN plan.paths :
          /\ Len(plan.paths[k]) >= 3
          /\ graph.nodes[Last(plan.paths[k])].kind # "base"

(***************************************************************************)
(* Properties of trace at nodes with several parents                       *)
(***************************************************************************)

\* the parents of n a replay goes on to: of a join the one side it replays,
\* the left one unless that is known empty, of any other node all of them;
\* never a parent that is known empty
Followed(n, empty) ==
    LET ps == graph.nodes[n].parents
        side == IF ps[1] \notin empty THEN ps[1] ELSE ps[2]
    IN  (IF Len(ps) # 1 /\ graph.nodes[n].kind = "join"
         THEN {side} ELSE Parents(graph, n)) \ empty

\* the paths that begin with p, go on to followed parents and end at the
\* first materialized node above the first node of p
RECURSIVE PathsFrom(_, _)
PathsFrom(p, empty) ==
    IF Len(p) > 1 /\ Last(p) \in DOMAIN graph.materialize THEN {p}
    ELSE UNION {PathsFrom(Append(p, q), empty) : q \in Followed(Last(p), empty)}

\* a step in which reconstruct calls trace
C31_Step ==
    (plan.pc = "node" /\ plan'.pc = "path") =>
        /\ {plan'.paths[k] : k \in DOMAIN plan'.paths}
              = PathsFrom(<<Current>>, plan.empty)
        /\ Len(plan'.paths) = Cardinality(PathsFrom(<<Current>>, plan.empty))
        /\ \A k \in DOMAIN plan'.paths : \A i \in DOMAIN plan'.paths[k] :
              plan'.paths[k][i] \notin plan.empty

\* C31: at a node with several parents trace goes on to every parent that is
\* not known empty when the node is a union, and only to the parent chosen by
\* replay_ancestor when it is a join; no path goes through a node known to
\* be empty, so a join whose chosen parent is empty gives no path.
C31_TraceBranches == [][C31_Step]_vars

\* trace has returned two paths, one of them through a join that replays
\* its right side because the left one is known empty
C31_Witness ==
    /\ plan.pc = "path" /\ Len(plan.paths) = 2
    /\ \E k \in DOMAIN plan.paths : \E i \in 1..(Len(plan.paths[k]) - 1) :
          LET n == plan.paths[k][i]
          IN  /\ graph.nodes[n].kind = "join"
              /\ graph.nodes[n].parents[1] \in plan.empty
              /\ plan.paths[k][i + 1] = graph.nodes[n].parents[2]

(***************************************************************************)
(* Properties of reconstruct                                               *)
(***************************************************************************)

\* the tags of the replay paths set up so far in the domains S: those in
\* packets not taken yet, those registered with a domain, those an egress
\* node maps
CarriedTags(S) ==
    {S.inbox[x[1]][x[2]].tag : x \in InFlight(S, ReplayPackets \ {"PrepareState"})}
        \cup UNION {DOMAIN S.rpaths[d] : d \in DomainsOf(graph)}
        \cup UNION {DOMAIN S.tags[n] : n \in DOMAIN S.tags}

\* a step of reconstruct: the tag it takes for a path is greater than the
\* tags of the paths before it
C32_Step ==
    plan'.tagGen # plan.tagGen =>
        \A t \in CarriedTags(dom) : TagLess(t, plan'.tag)

\* C32: every replay path gets a tag greater than every tag issued before it
\* in the process, so that no two replay paths carry the same 32-bit tag.
C32_FreshTags == [][C32_Step]_vars

\* the packets a step adds to the inbox of domain d
NewPackets(d) == SubSeq(dom'.inbox[d], Len(dom.inbox[d]) + 1, Len(dom'.inbox[d]))

\* the path reconstruct is at, from its materialized root to the target
RootFirst == Reverse(Head(plan.paths))

\* the nodes of domain d the path is replayed through, in path order
Through(d) == SelectSeq(Tail(RootFirst), LAMBDA n : DomainOf(graph, n) = d)

\* whether s is a run of consecutive elements of t
IsRun(s, t) == \E i \in 1..(Len(t) + 1) : \E j \in 0..Len(t) : s = SubSeq(t, i, j)

\* a step of reconstruct that finishes the loop over the segments, or that
\* sends StartReplay
C33_Step ==
    /\ (plan.pc = "path" /\ plan'.pc = "acks") =>
          \A d \in DomainsOf(graph) :
              /\ IsRun(Through(d), Tail(RootFirst))
              /\ Len(NewPackets(d)) = (IF Through(d) = <<>> THEN 0 ELSE 1)
              /\ \A k \in DOMAIN NewPackets(d) :
                    /\ NewPackets(d)[k].type = "SetupReplayPath"
                    /\ NewPackets(d)[k].tag = plan'.tag
                    /\ NewPackets(d)[k].path = Through(d)
    /\ (plan.pc = "acks" /\ plan'.pc = "done") =>
          \A d \in DomainsOf(graph) :
              NewPackets(d) = (IF d = DomainOf(graph, Head(RootFirst))
                               THEN <<StartReplay(plan.tag, Head(RootFirst))>>
                               ELSE <<>>)

\* C33: the SetupReplayPath packets of one tag list, in segment order, the
\* nodes of the path from the node after the materialized root to the
\* target, each once and in path order; a packet only lists nodes of the
\* domain it goes to, one packet per domain and run of the path; StartReplay
\* names the root as its source.
C33_SetupListsPath == [][C33_Step]_vars

\* StartReplay was sent for a path through three domains
C33_Witness ==
    /\ plan.pc = "done"
    /\ Cardinality({DomainOf(graph, RootFirst[i]) : i \in DOMAIN RootFirst}) >= 3

\* whether the path comes back to a domain it has left
ComesBack(path) ==
    \E i \in DOMAIN path : \E j \in DOMAIN path : \E k \in DOMAIN path :
        /\ i < j /\ j < k
        /\ DomainOf(graph, path[i]) = DomainOf(graph, path[k])
        /\ DomainOf(graph, path[i]) # DomainOf(graph, path[j])

\* a step of the migration: reconstruct stops at a path that comes back to
\* a domain, and no StartReplay is sent for it
C34_Step ==
    /\ (plan.pc = "path" /\ plan.paths # <<>> /\ plan' # plan) =>
          (plan'.pc = "panic") = ComesBack(Head(plan.paths))
    /\ plan.pc = "panic" => plan' = plan
    /\ Cardinality(InFlight(dom', {"StartReplay"}))
            > Cardinality(InFlight(dom, {"StartReplay"})) =>
          ~ComesBack(Head(plan.paths))

\* C34: reconstruct rejects every replay path on which a domain appears in
\* two different segments (a-b-a); StartReplay is never sent for such a path.
C34_RejectsReturn == [][C34_Step]_vars

\* reconstruct has rejected a path, with the packets of the segments before
\* the repeated domain taken by their domains
C34_Witness ==
    /\ plan.pc = "panic"
    /\ ComesBack(Head(plan.paths))
    /\ InFlight(dom, ReplayPackets) = {}

\* the SetupReplayPath packets of tag t that no domain has taken yet
SetupsInFlight(t) ==
    {x \in InFlight(dom, {"SetupReplayPath"}) : dom.inbox[x[1]][x[2]].tag = t}

\* the places where the path leaves a domain
Crossings == {i \in 1..(Len(RootFirst) - 1) :
                 DomainOf(graph, RootFirst[i]) # DomainOf(graph, RootFirst[i + 1])}

\* a step that sends StartReplay
C35_Step ==
    Cardinality(InFlight(dom', {"StartReplay"}))
            > Cardinality(InFlight(dom, {"StartReplay"})) =>
        /\ Last(dom'.inbox[DomainOf(graph, Head(RootFirst))]).type = "StartReplay"
        /\ SetupsInFlight(plan.tag) = {}
        /\ \A d \in DomainsOf(graph) :
              Through(d) # <<>> =>
                  /\ plan.tag \in DOMAIN dom.rpaths[d]
                  /\ dom.rpaths[d][plan.tag].path = Through(d)
        /\ \A i \in Crossings :
              /\ graph.nodes[RootFirst[i]].kind = "egress"
              /\ plan.tag \in DOMAIN dom.tags[RootFirst[i]]
              /\ dom.tags[RootFirst[i]][plan.tag] = RootFirst[i + 1]

\* C35: StartReplay for a tag is sent to the root domain only after the
\* domain of every segment has acknowledged its SetupReplayPath for the tag,
\* and after the egress node at the end of every segment but the last maps
\* the tag to the first node of the next segment.
C35_StartAfterSetup == [][C35_Step]_vars

\* StartReplay is in the inbox of the root domain of a path that leaves two
\* domains
C35_Witness ==
    /\ plan.pc = "done"
    /\ InFlight(dom, {"StartReplay"}) # {}
    /\ Cardinality(Crossings) = 2

\* the packets a step adds that carry the done channel, as pairs of the
\* domain and the packet
NewDone ==
    UNION {{<<d, NewPackets(d)[k]>> :
               k \in {j \in DOMAIN NewPackets(d) : NewPackets(d)[j].done}} :
           d \in DomainsOf(graph)}

\* all the paths of the node reconstruct is at
AllPaths == trace(graph, Current, plan.empty, <<Current>>)

\* the replay paths into node n whose replay has ended: registered with the
\* domain of n with the done channel, n filled and activated, and nothing
\* of a replay on its way
Replayed(n) ==
    IF n \in dom.ready /\ ~chan.done
          /\ InFlight(dom, {"SetupReplayPath", "StartReplay", "ReplayChunk"}) = {}
    THEN {t \in DOMAIN dom.rpaths[DomainOf(graph, n)] :
             /\ dom.rpaths[DomainOf(graph, n)][t].done
             /\ Last(dom.rpaths[DomainOf(graph, n)][t].path) = n}
    ELSE {}

\* a step of reconstruct that finishes the loop over the segments or begins
\* it, and the step of initialize that readies the node
C36_Step ==
    /\ (plan.pc = "path" /\ plan'.pc = "acks") =>
          /\ Cardinality(NewDone) = 1
          /\ \A x \in NewDone :
                /\ x[1] = DomainOf(graph, Current)
                /\ x[2].type = "SetupReplayPath"
                /\ x[2].tag = plan'.tag
                /\ Last(x[2].path) = Current
    /\ (plan.pc = "path" /\ plan.paths # <<>> /\ plan' # plan) =>
          Cardinality(Replayed(Current)) = Len(AllPaths) - Len(plan.paths)
    /\ (plan.i <= Len(topo_list(graph))
            /\ ReadyCount(dom', Current) > ReadyCount(dom, Current)
            /\ Replays(Current)) =>
          /\ AllPaths # <<>> => Cardinality(Replayed(Current)) = Len(AllPaths)
          /\ plan.paths = <<>>

\* C36: for each tag exactly one SetupReplayPath carries the done channel,
\* the one sent to the last segment, which is in the domain of the target;
\* the Ready of a reconstructed node is sent only after done was received
\* for every one of its replay paths, and the setup of a path begins only
\* after the path before it, of the same node, has reported done.
C36_DoneThenReady == [][C36_Step]_vars

\* the Ready of a node that was filled along two replay paths was sent
C36_Witness ==
    /\ plan.pc = "ready" /\ plan.i <= Len(topo_list(graph))
    /\ Replays(Current)
    /\ Len(AllPaths) = 2
    /\ Cardinality(DomainsOf(graph)) = 2

\* the SetupReplayPath packets sent for tag t: those still in an inbox and
\* those a domain has taken and registered
SetupsSent(t) ==
    Cardinality(SetupsInFlight(t))
        + Cardinality({d \in DomainsOf(graph) : t \in DOMAIN dom.rpaths[d]})

C38_RejectChangesNothing ==
    plan.pc = "panic" =>
        /\ SetupsSent(plan.tag) = 0
        /\ \A n \in DOMAIN dom.tags : plan.tag \notin DOMAIN dom.tags[n]
        /\ graph.nodes[Current].kind # "reader" =>
              /\ InFlight(dom, {"PrepareState"}) = {}
              /\ Current \notin DOMAIN dom.data

(***************************************************************************)
(* Properties of the union's buffer                                        *)
(***************************************************************************)

\* the projection of every record forward was given since the emission
\* before
ProjectedSince ==
    Flatten([i \in DOMAIN un.since |-> ProjectedUpdate(un.since[i].from, un.since[i].rs)])

\* C39: the union loses no buffered record: when forward is called with
\* last = true, the update it emits holds the projection of every record
\* given to forward since the emission before, each once, also when one
\* ancestor has given more than one update with last = false in between.
C39_NoBufferedLoss ==
    Emitted => SeqToBag(un.out.rs) = SeqToBag(ProjectedSince)

(***************************************************************************)
(* Properties of a join built from a Builder                               *)
(***************************************************************************)

\* the Builder gave the two sources no group in common
SharesNoGroup ==
    \A src \in DOMAIN joiner.join : DOMAIN joiner.join[src].against = {}

\* every row of the other source, woven with the record that arrived
EveryPair ==
    LET other == OtherNode(jin.from)
        state == NodeState(other)
    IN  [i \in DOMAIN state |-> Weave(joiner.emit, other, jin.rs[1].r, state[i].r)]

\* C40: forward on a Joiner built from any Builder over two sources completes
\* without failure for a record from either source, also when the sources share
\* no join group (all groups 0, as the chairs view); then every pair of rows
\* joins: the record that arrived is woven with every row of the other source
C40_ForwardCompletes ==
    ops > 0 =>
        /\ ~jin.failed
        /\ (SharesNoGroup /\ NodeState(OtherNode(jin.from)) # <<>>)
              => RowsOf(jout) = EveryPair

====
